---- MODULE Spec2Model ----
(***************************************************************************)
(* Model of the Phase 3 "Ask-the-Web" agent:                               *)
(*   - CircuitBreaker and WebSearchEngine    (phase3/src/web_search.py)    *)
(*   - WebAwareAgent.answer_question  (phase3/src/agent_orchestrator.py)   *)
(* Strings whose content matters are sequences of one-character strings.   *)
(***************************************************************************)
EXTENDS Integers, Sequences, FiniteSets, TLC

VARIABLES
    \* ---- CircuitBreaker (web_search.py:23-28)
    failure_threshold,   \* constructor argument
    recovery_timeout,    \* constructor argument
    failure_count,
    last_failure_time,   \* <<>> is None, <<t>> is the float t
    state,               \* "CLOSED", "OPEN", "HALF_OPEN"
    \* ---- WebSearchEngine (web_search.py:61-73)
    max_retries,
    \* ---- one search() call in progress
    pc,                  \* "idle": between calls; "loop": at the head of the for loop (line 117)
    attempt,             \* loop variable of line 117
    last_exception,      \* local of _perform_search_with_retry
    ret,                 \* what the last search() returned: [kind, items]
    \* ---- environment and observation
    now,                 \* time.time(), in seconds
    calls,               \* provider (DDGS.text) invocations made by the current / last search()
    last,                \* the last provider invocation: its outcome, loop index and the sleep after it
    raised,              \* the exception that reached line 107 in the last search(), "none" if none
    consec,              \* executed breaker calls that failed since construction / the last success
    n429,                \* HTTP 429 outcomes seen by the current / last search()
    transient_only,      \* every provider outcome of the current / last search() was Timeout / ConnectionError
    \* ---- WebAwareAgent (agent_orchestrator.py:121-141)
    available,
    total_questions,           \* stats["total_questions"]
    web_searches_performed,    \* stats["web_searches_performed"]
    sub_questions_generated,   \* stats["sub_questions_generated"]
    average_response_time,     \* stats["average_response_time"], a fraction [num, den]
    averaged,                  \* history: the processing times that entered the average,
                               \* as [sum, n]
    pipeline_calls,            \* rag_pipeline.ask_question calls made by the last answer_question()
    response,                  \* what the last answer_question() did: [kind, keys, search_strategy]
    \* ---- ConversationMemory (extended_rag_pipeline.py:48-59)
    max_memory,          \* constructor argument
    ttl_hours,           \* constructor argument
    interactions,        \* list of [timestamp, search_queries], oldest first
    clock,               \* datetime.now(), in hours
    mret,                \* the last memory / pipeline call: its arguments, the time and what it returned
    \* ---- ExtendedRAGPipeline (extended_rag_pipeline.py:154-159)
    stats,               \* [total_queries, web_searches, local_searches, cache_hits]
    search_log,          \* history: the web searches made so far, [query, time, since], where
                         \* since counts the interactions recorded after the one of that search
    \* ---- one ExtendedRAGPipeline._fuse_results call (extended_rag_pipeline.py:326-353)
    local_results,       \* argument: list of chunks
    web_results,         \* argument: list of chunks
    fused,               \* what the call returned
    fpc,                 \* "idle": no call; "input": called; "done": returned
    \* ---- one SearchPlanner.analyze_question call (agent_orchestrator.py:39-65)
    planned_question,    \* argument: the text of the question
    analysis,            \* what the call returned
    ppc,                 \* "idle": no call; "input": called; "done": returned
    \* ---- one WebAwareAgent.answer_question call, round by round
    \*      (agent_orchestrator.py:145-291)
    opc,                 \* "idle": no call; "rounds": in the strategy; "done": returned
    o_plan,              \* the analysis the planner returned, and max_depth
    o_rounds,            \* sub_responses / all_responses: one record per executed round
    o_mem0,              \* history: the interactions held when the call started
    o_result,            \* the "sources" and the trace of the response returned
    \* ---- threads inside CircuitBreaker.call (web_search.py:30-54)
    t_pc,                \* per thread: the statement it is about to execute
    t_reg,               \* per thread: the failure_count it has read for += 1
    t_out                \* per thread: how its call ended

searchVars == <<failure_threshold, recovery_timeout, failure_count, last_failure_time, state,
                max_retries, pc, attempt, last_exception, ret, now, calls, last,
                raised, consec, n429, transient_only>>
agentVars == <<available, total_questions, web_searches_performed, sub_questions_generated,
               average_response_time, averaged, pipeline_calls, response>>
memVars == <<max_memory, ttl_hours, interactions, clock, mret, stats, search_log>>
fuseVars == <<local_results, web_results, fused, fpc>>
plannerVars == <<planned_question, analysis, ppc>>
orchVars == <<opc, o_plan, o_rounds, o_mem0, o_result>>
concVars == <<t_pc, t_reg, t_out>>
extVars == <<plannerVars, orchVars, concVars>>
offSearchVars == <<agentVars, memVars, fuseVars, extVars>>
offAgentVars == <<searchVars, memVars, fuseVars, extVars>>
offMemVars == <<searchVars, agentVars, fuseVars, extVars>>
offFuseVars == <<searchVars, agentVars, memVars, extVars>>
offPlannerVars == <<searchVars, agentVars, memVars, fuseVars, orchVars, concVars>>
offOrchVars == <<searchVars, fuseVars, plannerVars, concVars>>
offConcVars == <<agentVars, memVars, fuseVars, plannerVars, orchVars>>
vars == <<searchVars, agentVars, memVars, fuseVars, extVars>>

----------------------------------------------------------------------------
(* Bounds of the model *)
MaxThreshold == 3      \* failure_threshold ranges over 1..MaxThreshold
MaxRetriesBound == 3   \* max_retries ranges over 0..MaxRetriesBound
MaxRecoveryTimeout == 2 \* recovery_timeout ranges over 1..MaxRecoveryTimeout (seconds)
MaxFailures == 4       \* no call is admitted once failure_count has reached this
MaxTime == 8           \* no call or idle wait starts after this time
MaxQuestions == 3      \* answer_question() calls per behaviour
MaxSub == 3            \* sub-questions of one question
MaxDepth == 3          \* max_depth ranges over 0..MaxDepth

MaxMemoryBound == 2    \* max_memory ranges over 0..MaxMemoryBound
MaxClock == 2          \* the clock stops at this hour
MaxAsk == 4            \* ask_question() calls per behaviour
MaxPattern == 2        \* chunks in the pattern a list of results repeats
MaxRep == 3            \* repetitions of the pattern in a list of results
MaxTokens == 2         \* words of a question, besides its padding
MaxOrchSub == 2        \* sub-questions of the question followed round by round
MaxThreads == 2        \* threads inside the breaker

(* Program constants *)
DefaultMaxMemory == 10         \* ConversationMemory(max_memory=10)
DefaultTtlHours == 24          \* ConversationMemory(ttl_hours=24)
DefaultLookupHours == 1        \* is_recently_searched(query, hours=1)
RecentContextLimit == 5        \* get_recent_context returns recent[-5:]
SimilarityTenths == 7          \* _similar_queries: ratio > 0.7
MaxPerSource == 3              \* _diversify_sources(max_per_source=3)
MaxFused == 10                 \* diversified[:10]
DayHours == 24                 \* hours_old < 24
WeekHours == 168               \* hours_old < 168
ShortText == 100               \* text_length < 100
LongText == 1000               \* text_length > 1000
RateLimitWait == 60            \* wait_time on HTTP 429
ServerErrorWait == 5           \* sleep on HTTP 5xx
OtherErrorWait == 1            \* sleep on ConnectionError / unexpected exception
MinTitleLen == 3
MinSnippetLen == 10

None == <<>>

\* No memory or pipeline call made yet.
NoCall == [op |-> "none", query |-> <<>>, hours |-> 0, use_web |-> FALSE,
           value |-> FALSE, context |-> <<>>, at |-> 0]
NoStats == [total_queries |-> 0, web_searches |-> 0, local_searches |-> 0, cache_hits |-> 0]

\* No _fuse_results call made.
FuseIdle == local_results = <<>> /\ web_results = <<>> /\ fused = <<>> /\ fpc = "idle"

\* No analyze_question call made.
NoAnalysis == [needs_web |-> FALSE, complexity |-> 0, sub_questions |-> <<>>,
               search_strategy |-> "none", estimated_searches |-> 0]
PlannerIdle == planned_question = <<>> /\ analysis = NoAnalysis /\ ppc = "idle"

\* No answer_question call followed round by round.
OrchIdle ==
    /\ opc = "idle"
    /\ o_plan = [search_strategy |-> "none", sub_questions |-> <<>>, needs_web |-> FALSE,
                 max_depth |-> 0]
    /\ o_rounds = <<>> /\ o_mem0 = <<>>
    /\ o_result = [sources |-> <<>>, trace |-> <<>>]

\* No thread inside the breaker.
ConcIdle == t_pc = <<>> /\ t_reg = <<>> /\ t_out = <<>>

\* The components a specification of another component leaves untouched.
ExtIdle == PlannerIdle /\ OrchIdle /\ ConcIdle

\* ExtendedRAGPipeline.__init__ with its ConversationMemory(), before any question.
MemoryIdle ==
    /\ max_memory = DefaultMaxMemory /\ ttl_hours = DefaultTtlHours
    /\ interactions = <<>> /\ clock = 0 /\ mret = NoCall
    /\ stats = NoStats /\ search_log = {}

----------------------------------------------------------------------------
(* Strings as sequences of characters *)

C_http == <<"h","t","t","p",":","/","/">>
C_https == <<"h","t","t","p","s",":","/","/">>

StartsWith(s, p) == Len(s) >= Len(p) /\ SubSeq(s, 1, Len(p)) = p

RECURSIVE LStrip(_)
LStrip(s) == IF s # <<>> /\ Head(s) = " " THEN LStrip(Tail(s)) ELSE s

RECURSIVE RStrip(_)
RStrip(s) == IF s # <<>> /\ s[Len(s)] = " " THEN RStrip(SubSeq(s, 1, Len(s) - 1)) ELSE s

\* str.strip()
Strip(s) == RStrip(LStrip(s))


----------------------------------------------------------------------------
(* WebSearchEngine: provider results and their validation *)

\* What DDGS.text yields: dicts that may lack "title", "href" or "body".
ItemGood == [title |-> <<"A","I"," ","n","e","w","s">>,
             href |-> C_https \o <<"a",".","i","o">>,
             body |-> <<"l","a","t","e","s","t"," ","m","o","d","e","l","s">>]
ItemFtp == [title |-> <<"D","o","c","s">>,
            href |-> <<"f","t","p",":","/","/","a">>,
            body |-> <<"r","e","f","e","r","e","n","c","e"," ","d","o","c">>]
ItemShortTitle == [title |-> <<" ","a","b"," "," ">>,
                   href |-> C_http \o <<"b",".","f","r">>,
                   body |-> <<"s","o","m","e"," ","l","o","n","g"," ","t","e","x","t">>]
ItemNoBody == [title |-> <<"T","i","t","l","e">>,
               href |-> C_http \o <<"c",".","d","e">>]

\* title of exactly 3 characters, body of exactly 10 once stripped
ItemMinimal == [title |-> <<"a","b","c">>,
                href |-> C_http \o <<"d">>,
                body |-> <<" ","0","1","2","3","4","5","6","7","8","9"," ">>]
\* body of 9 characters once stripped
ItemShortSnippet == [title |-> <<"N","e","w","s">>,
                     href |-> C_https \o <<"e">>,
                     body |-> <<"0","1","2","3","4","5","6","7","8"," "," ">>]
ItemBlankTitle == [title |-> <<" "," "," "," ">>,
                   href |-> C_https \o <<"f">>,
                   body |-> <<"s","o","m","e"," ","l","o","n","g"," ","t","e","x","t">>]

RawResults == { <<>>, <<ItemFtp, ItemNoBody>>,
                <<ItemShortTitle, ItemMinimal, ItemShortSnippet, ItemGood>>,
                <<ItemBlankTitle, ItemMinimal>> }

\* dict.get(key, "")
Get(d, key) == IF key \in DOMAIN d THEN d[key] ELSE <<>>

\* lines 131-139: one result dict per provider item
ConvertItem(item) == [title |-> Get(item, "title"),
                      url |-> Get(item, "href"),
                      snippet |-> Get(item, "body"),
                      source |-> "duckduckgo"]

ConvertResults(raw) == [i \in 1..Len(raw) |-> ConvertItem(raw[i])]

\* Mutation of IsValidResult: the minimum lengths are excluded
IsValidResult_StrictMin(r) ==
    /\ {"title", "url", "snippet"} \subseteq DOMAIN r
    /\ (StartsWith(r.url, C_http) \/ StartsWith(r.url, C_https))
    /\ Strip(r.title) # <<>> /\ Strip(r.snippet) # <<>>
    /\ ~(Len(Strip(r.title)) <= MinTitleLen \/ Len(Strip(r.snippet)) <= MinSnippetLen)

\* lines 190-210: the tests one result has to pass
IsValidResult(r) ==
    /\ {"title", "url", "snippet"} \subseteq DOMAIN r
    /\ (StartsWith(r.url, C_http) \/ StartsWith(r.url, C_https))
    /\ Strip(r.title) # <<>> /\ Strip(r.snippet) # <<>>
    /\ ~(Len(Strip(r.title)) < MinTitleLen \/ Len(Strip(r.snippet)) < MinSnippetLen)

\* lines 213-215: the stored result has its title and snippet stripped
CleanResult(r) == [r EXCEPT !.title = Strip(r.title), !.snippet = Strip(r.snippet)]

RECURSIVE ValidateResults(_)
ValidateResults(results) ==
    IF results = <<>> THEN <<>>
    ELSE IF IsValidResult(Head(results))
         THEN <<CleanResult(Head(results))>> \o ValidateResults(Tail(results))
         ELSE ValidateResults(Tail(results))

----------------------------------------------------------------------------
(* WebSearchEngine: what one provider invocation can do *)

Statuses == {404, 429, 503}

\* HTTPError.response: None, or an object with a status_code whose truth value is
\* `truthy` (requests.Response.__bool__ is Response.ok: False for every 4xx and 5xx
\* status; a stand-in object is true).
NoResponse == [present |-> FALSE, status |-> 0, truthy |-> FALSE]
Responses == {NoResponse} \cup [present : {TRUE}, status : Statuses, truthy : BOOLEAN]

ProviderOutcomes ==
    [kind : {"ok"}, raw : RawResults, response : {NoResponse}]
    \cup [kind : {"Timeout", "ConnectionError", "Exception"}, raw : {<<>>}, response : {NoResponse}]
    \cup [kind : {"HTTPError"}, raw : {<<>>}, response : Responses]

\* line 156: e.response.status_code if e.response else "Unknown"
StatusCode(resp) ==
    IF resp.present /\ resp.truthy THEN [known |-> TRUE, code |-> resp.status]
    ELSE [known |-> FALSE, code |-> 0]

Pow2(n) == 2 ^ n

\* line 159: f"HTTP {status_code}"
HttpLabel(code) == CASE code = 404 -> "HTTP 404" [] code = 429 -> "HTTP 429" [] OTHER -> "HTTP 503"

\* Mutation of HandleTimeout: a timeout ends the loop
HandleTimeout_NoRetry(a) ==
    [next |-> "break", sleep |-> 0, last_exception |-> "Timeout"]

\* Mutation of HandleTimeout: a fixed delay instead of the exponential one
HandleTimeout_FixedDelay(a) ==
    [next |-> "continue", sleep |-> IF a < max_retries - 1 THEN OtherErrorWait ELSE 0,
     last_exception |-> "Timeout"]

\* lines 143-147
HandleTimeout(a) ==
    [next |-> "continue", sleep |-> IF a < max_retries - 1 THEN Pow2(a) ELSE 0,
     last_exception |-> "Timeout"]

\* lines 149-153
HandleConnectionError(a) ==
    [next |-> "continue", sleep |-> IF a < max_retries - 1 THEN OtherErrorWait ELSE 0,
     last_exception |-> "Connection Error"]

\* Mutation of HandleHTTPError: every status from 400 on is retried like a 5xx
HandleHTTPError_RetriesClientErrors(a, resp) ==
    LET status_code == StatusCode(resp)
    IN  IF status_code.known /\ status_code.code = 429
        THEN [next |-> "continue", sleep |-> RateLimitWait, last_exception |-> "HTTP 429"]
        ELSE IF ~status_code.known
        THEN [next |-> "TypeError", sleep |-> 0, last_exception |-> "HTTP Unknown"]
        ELSE [next |-> "continue", sleep |-> IF a < max_retries - 1 THEN ServerErrorWait ELSE 0,
              last_exception |-> HttpLabel(status_code.code)]

\* lines 155-173. Comparing the string "Unknown" with 500 raises TypeError inside the
\* handler; no other except clause of the same try statement catches it.
HandleHTTPError(a, resp) ==
    LET status_code == StatusCode(resp)
        le == IF status_code.known THEN HttpLabel(status_code.code) ELSE "HTTP Unknown"
    IN  IF status_code.known /\ status_code.code = 429
        THEN [next |-> "continue", sleep |-> RateLimitWait, last_exception |-> le]
        ELSE IF ~status_code.known
        THEN [next |-> "TypeError", sleep |-> 0, last_exception |-> le]
        ELSE IF status_code.code >= 500
        THEN [next |-> "continue", sleep |-> IF a < max_retries - 1 THEN ServerErrorWait ELSE 0,
              last_exception |-> le]
        ELSE [next |-> "break", sleep |-> 0, last_exception |-> le]

\* lines 175-179
HandleException(a) ==
    [next |-> "continue", sleep |-> IF a < max_retries - 1 THEN OtherErrorWait ELSE 0,
     last_exception |-> "Exception"]

\* lines 118-179: the body of the for loop for loop index a and provider outcome o
Handle(a, o) ==
    CASE o.kind = "ok" -> [next |-> "return", sleep |-> 0, last_exception |-> last_exception]
      [] o.kind = "Timeout" -> HandleTimeout(a)
      [] o.kind = "ConnectionError" -> HandleConnectionError(a)
      [] o.kind = "HTTPError" -> HandleHTTPError(a, o.response)
      [] OTHER -> HandleException(a)


----------------------------------------------------------------------------
(* CircuitBreaker *)

\* Mutation of RecoveryElapsed: >= for >
RecoveryElapsed_AtTimeout == now - last_failure_time[1] >= recovery_timeout

\* line 32: time.time() - self.last_failure_time > self.recovery_timeout
RecoveryElapsed == now - last_failure_time[1] > recovery_timeout

\* lines 31-35: the state the call goes on in, or "raise"
Gate ==
    IF state = "OPEN"
    THEN IF RecoveryElapsed THEN "HALF_OPEN" ELSE "raise"
    ELSE state

\* Mutation of on_success: the state is left as the call was admitted in
on_success_KeepsState ==
    /\ failure_count' = 0
    /\ UNCHANGED <<state, last_failure_time>>

\* Mutation of on_success: the failure count is not reset
on_success_KeepsCount ==
    /\ state' = "CLOSED"
    /\ UNCHANGED <<failure_count, last_failure_time>>

\* lines 45-47
on_success ==
    /\ failure_count' = 0
    /\ state' = "CLOSED"
    /\ UNCHANGED last_failure_time

\* Mutation of on_failure: > for >=
on_failure_Late(st, t) ==
    /\ failure_count' = failure_count + 1
    /\ last_failure_time' = <<t>>
    /\ state' = IF failure_count + 1 > failure_threshold THEN "OPEN" ELSE st

\* lines 49-54, with t the value of time.time(), entered in state st
on_failure(st, t) ==
    /\ failure_count' = failure_count + 1
    /\ last_failure_time' = <<t>>
    /\ state' = IF failure_count + 1 >= failure_threshold THEN "OPEN" ELSE st

----------------------------------------------------------------------------
(* WebSearchEngine.search *)

NoAttempt == [kind |-> "none", status |-> 0, attempt |-> 0, sleep |-> 0, raw |-> <<>>]
NoReturn == [kind |-> "pending", items |-> <<>>]

\* Mutation of SearchReturn: an empty validated list is reported as an error
SearchReturn_RaisesOnEmpty(results) ==
    IF ValidateResults(results) = <<>> THEN [kind |-> "NoResults", items |-> <<>>]
    ELSE [kind |-> "list", items |-> ValidateResults(results)]

\* lines 101-105
SearchReturn(results) == [kind |-> "list", items |-> ValidateResults(results)]

\* Mutation of SearchExceptReturn: the failure is raised to the caller
SearchExceptReturn_Raises == [kind |-> "SearchUnavailable", items |-> <<>>]

\* lines 107-109
SearchExceptReturn == [kind |-> "list", items |-> <<>>]

configVars == <<failure_threshold, recovery_timeout, max_retries>>

\* The call of line 95 raised exc: CircuitBreaker.call lines 41-43, then search lines 107-109.
FailSearch(exc, t) ==
    /\ on_failure(state, t)
    /\ pc' = "idle"
    /\ ret' = SearchExceptReturn
    /\ raised' = exc
    /\ consec' = consec + 1

\* search() on a breaker that is OPEN and whose recovery_timeout has not elapsed:
\* line 35 raises, line 107 catches, line 109 returns.
SearchRejected ==
    /\ pc = "idle" /\ now <= MaxTime
    /\ Gate = "raise"
    /\ calls' = 0 /\ n429' = 0 /\ transient_only' = TRUE /\ last' = NoAttempt
    /\ raised' = "circuit_open"
    /\ ret' = SearchExceptReturn
    /\ UNCHANGED <<configVars, failure_count, last_failure_time, state, pc, attempt,
                   last_exception, now, consec, offSearchVars>>

\* search() is let through by lines 31-35 and enters _perform_search_with_retry.
SearchAdmitted ==
    /\ pc = "idle" /\ now <= MaxTime /\ failure_count < MaxFailures
    /\ Gate # "raise"
    /\ state' = Gate
    /\ pc' = "loop" /\ attempt' = 0 /\ last_exception' = "None"
    /\ calls' = 0 /\ n429' = 0 /\ transient_only' = TRUE /\ last' = NoAttempt
    /\ raised' = "none"
    /\ ret' = NoReturn
    /\ UNCHANGED <<configVars, failure_count, last_failure_time, now, consec, offSearchVars>>

\* One iteration of the for loop of line 117: the provider is invoked and answers o.
Attempt(o) ==
    /\ pc = "loop" /\ attempt < max_retries
    /\ LET h == Handle(attempt, o) IN
        /\ calls' = calls + 1
        /\ n429' = n429 + (IF o.kind = "HTTPError" /\ o.response.present /\ o.response.status = 429
                           THEN 1 ELSE 0)
        /\ transient_only' = (transient_only /\ o.kind \in {"Timeout", "ConnectionError"})
        /\ last' = [kind |-> o.kind, status |-> o.response.status, attempt |-> attempt,
                    sleep |-> h.sleep, raw |-> o.raw]
        /\ last_exception' = h.last_exception
        /\ now' = now + h.sleep
        /\ CASE h.next = "return" ->
                   /\ on_success
                   /\ pc' = "idle"
                   /\ ret' = SearchReturn(ConvertResults(o.raw))
                   /\ consec' = 0
                   /\ UNCHANGED <<attempt, raised>>
             [] h.next = "continue" ->
                   /\ attempt' = attempt + 1
                   /\ UNCHANGED <<failure_count, last_failure_time, state, pc, ret, raised, consec>>
             [] h.next = "break" ->
                   /\ FailSearch("search_failed", now')
                   /\ UNCHANGED attempt
             [] OTHER ->
                   /\ FailSearch("TypeError", now')
                   /\ UNCHANGED attempt
    /\ UNCHANGED <<configVars, offSearchVars>>

\* The for loop is exhausted: line 182 raises.
LoopExit ==
    /\ pc = "loop" /\ attempt >= max_retries
    /\ FailSearch("search_failed", now)
    /\ UNCHANGED <<configVars, attempt, last_exception, now, calls, last, n429,
                   transient_only, offSearchVars>>

\* Time passes between two calls.
Tick ==
    /\ pc = "idle" /\ now < MaxTime
    /\ now' = now + 1
    /\ UNCHANGED <<configVars, failure_count, last_failure_time, state, pc, attempt,
                   last_exception, ret, calls, last, raised, consec, n429,
                   transient_only, offSearchVars>>

NoAnswer == [kind |-> "none", keys |-> {}, search_strategy |-> "none"]

\* line 139: "average_response_time": 0
Zero == [num |-> 0, den |-> 1]
NoneAveraged == [sum |-> 0, n |-> 0]

AgentIdle ==
    /\ available = TRUE
    /\ total_questions = 0
    /\ web_searches_performed = 0
    /\ sub_questions_generated = 0
    /\ average_response_time = Zero /\ averaged = NoneAveraged
    /\ pipeline_calls = 0
    /\ response = NoAnswer

\* CircuitBreaker.__init__ and WebSearchEngine.__init__ for their arguments. (The engine
\* builds its breaker with the defaults 5 and 60; the unit tests build
\* CircuitBreaker(failure_threshold=2).)
InitSearch ==
    /\ failure_threshold \in 1..MaxThreshold
    /\ recovery_timeout \in 1..MaxRecoveryTimeout
    /\ max_retries \in 0..MaxRetriesBound
    /\ failure_count = 0
    /\ last_failure_time = None
    /\ state = "CLOSED"
    /\ pc = "idle" /\ attempt = 0 /\ last_exception = "None"
    /\ ret = NoReturn
    /\ now = 0 /\ calls = 0 /\ last = NoAttempt
    /\ raised = "none" /\ consec = 0 /\ n429 = 0 /\ transient_only = TRUE
    /\ AgentIdle /\ MemoryIdle /\ FuseIdle /\ ExtIdle

NextSearch ==
    \/ SearchRejected
    \/ SearchAdmitted
    \/ \E o \in ProviderOutcomes : Attempt(o)
    \/ LoopExit
    \/ Tick

SpecSearch == InitSearch /\ [][NextSearch]_vars

\* The provider call returns or raises (it is bounded by the timeout) and sleeps end.
FairSpecSearch ==
    SpecSearch /\ WF_vars(\E o \in ProviderOutcomes : Attempt(o)) /\ WF_vars(LoopExit)


----------------------------------------------------------------------------
(* SearchPlanner.analyze_question and WebAwareAgent.answer_question *)

\* agent_orchestrator.py lines 50-60
SearchStrategy(nsub, complexity) ==
    IF nsub > 1
    THEN IF complexity > 7 THEN "sequential" ELSE "parallel"
    ELSE "single"

\* lines 51, 60
EstimatedSearches(nsub) == IF nsub > 1 THEN nsub ELSE 1

\* extended_rag_pipeline.py lines 206-212 and 414-419: the keys of full_response
PipelineFullKeys == {"answer", "sources", "context_chunks", "context_length",
                     "search_queries", "web_sources", "local_sources", "processing_time"}

\* extended_rag_pipeline.py lines 224-229: the keys of the pipeline's own error response
PipelineErrorKeys == {"answer", "sources", "error", "processing_time"}

\* What one rag_pipeline.ask_question call does: returns full_response, returns the
\* pipeline's error response, or (a collaborator that is not the ExtendedRAGPipeline
\* of this repository) raises.
PipelineOutcomes == {"full", "degraded", "raises"}

PipelineKeys(o) == IF o = "full" THEN PipelineFullKeys ELSE PipelineErrorKeys

\* Mutation of SequentialSteps: the loop breaks when i > max_depth
SequentialSteps_Late(nsub, max_depth) ==
    IF max_depth < 0 THEN 0 ELSE IF nsub < max_depth + 1 THEN nsub ELSE max_depth + 1

\* lines 263-265: the sub-questions the sequential loop executes
SequentialSteps(nsub, max_depth) ==
    IF max_depth <= 0 THEN 0 ELSE IF nsub < max_depth THEN nsub ELSE max_depth

\* The ask_question calls one strategy starts (lines 220, 232-233, 263-272), if none raises.
PlannedCalls(strategy, nsub, max_depth) ==
    CASE strategy = "parallel" -> nsub
      [] strategy = "sequential" -> SequentialSteps(nsub, max_depth)
      [] OTHER -> 1

\* The index of the first call that raises among the first n, 0 if none does
FirstRaise(outs, n) ==
    IF \E i \in 1..n : outs[i] = "raises"
    THEN CHOOSE i \in 1..n : outs[i] = "raises" /\ \A j \in 1..(i - 1) : outs[j] # "raises"
    ELSE 0

\* The keys of the dict the strategy returns: lines 220, 247-253, 287-291
StrategyKeys(strategy, outs) ==
    CASE strategy = "parallel" ->
             {"answer", "sources", "web_sources", "local_sources", "sub_responses"}
      [] strategy = "sequential" -> {"answer", "sources", "sequential_steps"}
      [] OTHER -> PipelineKeys(outs[1])

\* lines 164-168
UnavailableResponse ==
    [kind |-> "dict", keys |-> {"answer", "processing_time", "search_strategy"},
     search_strategy |-> "unavailable"]

\* lines 207-214
ErrorResponse ==
    [kind |-> "dict", keys |-> {"answer", "error", "processing_time", "search_strategy"},
     search_strategy |-> "error"]

RECURSIVE GCD(_, _)
GCD(a, b) == IF b = 0 THEN a ELSE GCD(b, a % b)

\* the fraction num / den in lowest terms
Fraction(num, den) == [num |-> num \div GCD(num, den), den |-> den \div GCD(num, den)]

\* lines 196-199: (average * (total_questions - 1) + processing_time) / total_questions
RunningAverage(average, total, processing_time) ==
    Fraction(average.num * (total - 1) + processing_time * average.den, average.den * total)

\* Mutation of FinalResponse: sub_questions_count is not set
FinalResponse_NoCount(keys, strategy) ==
    [kind |-> "dict",
     keys |-> keys \cup {"processing_time", "search_strategy"},
     search_strategy |-> strategy]

\* lines 187-190, 205
FinalResponse(keys, strategy) ==
    [kind |-> "dict",
     keys |-> keys \cup {"processing_time", "search_strategy", "sub_questions_count"},
     search_strategy |-> strategy]

\* answer_question(question, max_depth) for a question the planner analyses into nsub
\* sub-questions of the given complexity (planner_ok = FALSE: analyze_question raises,
\* as it does for a question that is not a string); outs[i] is what the i-th
\* ask_question call does, processing_time the time line 186 measures.
AnswerQuestion(nsub, complexity, max_depth, planner_ok, outs, processing_time) ==
    /\ total_questions < MaxQuestions
    /\ total_questions' = total_questions + 1
    /\ LET strategy == SearchStrategy(nsub, complexity)
           planned == PlannedCalls(strategy, nsub, max_depth)
           fr == FirstRaise(outs, planned)
       IN  IF ~available
           THEN /\ response' = UnavailableResponse
                /\ pipeline_calls' = 0
                /\ UNCHANGED <<web_searches_performed, sub_questions_generated,
                               average_response_time, averaged>>
           ELSE IF ~planner_ok
           THEN /\ response' = ErrorResponse
                /\ pipeline_calls' = 0
                /\ UNCHANGED <<web_searches_performed, sub_questions_generated,
                               average_response_time, averaged>>
           ELSE IF fr # 0
           THEN /\ response' = ErrorResponse
                /\ pipeline_calls' = fr
                /\ UNCHANGED <<web_searches_performed, sub_questions_generated,
                               average_response_time, averaged>>
           ELSE /\ response' = FinalResponse(StrategyKeys(strategy, outs), strategy)
                /\ pipeline_calls' = planned
                /\ web_searches_performed' = web_searches_performed + EstimatedSearches(nsub)
                /\ sub_questions_generated' = sub_questions_generated + nsub
                /\ average_response_time' =
                       RunningAverage(average_response_time, total_questions', processing_time)
                /\ averaged' = [sum |-> averaged.sum + processing_time, n |-> averaged.n + 1]
    /\ UNCHANGED <<available, offAgentVars>>

Complexities == {0, 7, 8, 10}

\* processing times, in a unit of time
ElapsedChoices == {1, 2}

SearchIdle ==
    /\ failure_threshold = 5 /\ recovery_timeout = 60 /\ max_retries = 3
    /\ failure_count = 0
    /\ last_failure_time = None
    /\ state = "CLOSED"
    /\ pc = "idle" /\ attempt = 0 /\ last_exception = "None"
    /\ ret = NoReturn
    /\ now = 0 /\ calls = 0 /\ last = NoAttempt
    /\ raised = "none" /\ consec = 0 /\ n429 = 0 /\ transient_only = TRUE

\* WebAwareAgent.__init__, lines 121-141: available is False when a collaborator's
\* factory raised.
InitAgent ==
    /\ SearchIdle /\ MemoryIdle /\ FuseIdle /\ ExtIdle
    /\ available \in BOOLEAN
    /\ total_questions = 0
    /\ web_searches_performed = 0
    /\ sub_questions_generated = 0
    /\ average_response_time = Zero /\ averaged = NoneAveraged
    /\ pipeline_calls = 0
    /\ response = NoAnswer

NextAgent ==
    \E nsub \in 1..MaxSub, complexity \in Complexities, max_depth \in 0..MaxDepth,
       planner_ok \in BOOLEAN, processing_time \in ElapsedChoices :
      \E outs \in [1..nsub -> PipelineOutcomes] :
        AnswerQuestion(nsub, complexity, max_depth, planner_ok, outs, processing_time)

SpecAgent == InitAgent /\ [][NextAgent]_vars

----------------------------------------------------------------------------
(* ConversationMemory *)

\* Queries, given by the words str.split() yields.
QPrice == <<"prix", "bitcoin", "euro", "2024">>
QPriceCaps == <<"Prix", "Bitcoin", "EURO", "Prix">>
QShort == <<"prix", "bitcoin">>
QEmpty == <<>>
QSeven == <<"a", "b", "c", "d", "e", "f", "g">>
QTen == QSeven \o <<"h", "i", "j">>

Queries == {QPrice, QPriceCaps, QShort, QEmpty, QTen}
SearchQueryLists == { <<>>, <<QPrice>>, <<QShort, QSeven>>, <<QEmpty>> }
WindowChoices == {1, 2, 3}
TtlChoices == {0, 1, 2}

\* str.lower() on the words in use
Lower(w) ==
    CASE w = "Prix" -> "prix"
      [] w = "Bitcoin" -> "bitcoin"
      [] w = "EURO" -> "euro"
      [] OTHER -> w

\* set(query.lower().split())
Words(query) == {Lower(query[i]) : i \in 1..Len(query)}

\* Mutation of similar_queries: a ratio of exactly 0.7 counts as similar
similar_queries_AtLeast(query1, query2) ==
    LET words1 == Words(query1)
        words2 == Words(query2)
        intersection == words1 \cap words2
        union == words1 \cup words2
    IN  IF union # {}
        THEN 10 * Cardinality(intersection) >= SimilarityTenths * Cardinality(union)
        ELSE FALSE

\* lines 99-108; len(intersection) / len(union) > 0.7 compared without the division
similar_queries(query1, query2) ==
    LET words1 == Words(query1)
        words2 == Words(query2)
        intersection == words1 \cap words2
        union == words1 \cup words2
    IN  IF union # {}
        THEN 10 * Cardinality(intersection) > SimilarityTenths * Cardinality(union)
        ELSE FALSE

\* line 94: any(self._similar_queries(query, q) for q in interaction["search_queries"])
AnySimilar(query, search_queries) ==
    \E k \in 1..Len(search_queries) : similar_queries(query, search_queries[k])

\* Mutation of IsRecentlySearched: the age of the interaction is not looked at
IsRecentlySearched_AnyAge(ints, t, query, hours) ==
    \E i \in 1..Len(ints) : AnySimilar(query, ints[i].search_queries)

\* lines 90-97, at time t
IsRecentlySearched(ints, t, query, hours) ==
    \E i \in 1..Len(ints) :
        /\ ints[i].timestamp > t - hours
        /\ AnySimilar(query, ints[i].search_queries)

\* s[-n:]
LastN(s, n) == IF Len(s) <= n THEN s ELSE SubSeq(s, Len(s) - n + 1, Len(s))

\* lines 83-86, at time t
RecentContext(ints, t, hours) ==
    LastN(SelectSeq(ints, LAMBDA i : i.timestamp > t - hours), RecentContextLimit)

\* lines 112-117, at time t
cleanup_expired(ints, t, ttl) == SelectSeq(ints, LAMBDA i : i.timestamp > t - ttl)

\* Mutation of AddInteraction: the oldest interaction is not dropped
AddInteraction_NoPop(ints, t, search_queries, maxm, ttl) ==
    cleanup_expired(Append(ints, [timestamp |-> t, search_queries |-> search_queries]), t, ttl)

\* lines 64-79, at time t
AddInteraction(ints, t, search_queries, maxm, ttl) ==
    LET appended == Append(ints, [timestamp |-> t, search_queries |-> search_queries])
        capped == IF Len(appended) > maxm THEN Tail(appended) ELSE appended
    IN  cleanup_expired(capped, t, ttl)

add_interaction(search_queries) ==
    /\ interactions' = AddInteraction(interactions, clock, search_queries, max_memory, ttl_hours)
    /\ mret' = [NoCall EXCEPT !.op = "add", !.at = clock]
    /\ UNCHANGED <<max_memory, ttl_hours, clock, stats, search_log, offMemVars>>

get_recent_context(hours) ==
    /\ mret' = [NoCall EXCEPT !.op = "context", !.hours = hours, !.at = clock,
                              !.context = RecentContext(interactions, clock, hours)]
    /\ UNCHANGED <<max_memory, ttl_hours, interactions, clock, stats, search_log, offMemVars>>

\* Mutation of is_recently_searched: the probe is recorded as an interaction
is_recently_searched_Records(query, hours) ==
    /\ mret' = [NoCall EXCEPT !.op = "probe", !.query = query, !.hours = hours, !.at = clock,
                              !.value = IsRecentlySearched(interactions, clock, query, hours)]
    /\ interactions' = AddInteraction(interactions, clock, <<query>>, max_memory, ttl_hours)
    /\ UNCHANGED <<max_memory, ttl_hours, clock, stats, search_log, offMemVars>>

is_recently_searched(query, hours) ==
    /\ mret' = [NoCall EXCEPT !.op = "probe", !.query = query, !.hours = hours, !.at = clock,
                              !.value = IsRecentlySearched(interactions, clock, query, hours)]
    /\ UNCHANGED <<max_memory, ttl_hours, interactions, clock, stats, search_log, offMemVars>>

\* datetime.now() moves on by an hour.
MemTick ==
    /\ clock < MaxClock
    /\ clock' = clock + 1
    /\ UNCHANGED <<max_memory, ttl_hours, interactions, mret, stats, search_log, offMemVars>>

\* ConversationMemory.__init__ for its arguments.
InitMemory ==
    /\ SearchIdle /\ AgentIdle
    /\ max_memory \in 0..MaxMemoryBound
    /\ ttl_hours \in TtlChoices
    /\ interactions = <<>> /\ clock = 0 /\ mret = NoCall
    /\ stats = NoStats /\ search_log = {}
    /\ FuseIdle /\ ExtIdle

NextMemory ==
    \/ \E search_queries \in SearchQueryLists : add_interaction(search_queries)
    \/ \E hours \in WindowChoices : get_recent_context(hours)
    \/ \E query \in Queries, hours \in WindowChoices : is_recently_searched(query, hours)
    \/ MemTick

SpecMemory == InitMemory /\ [][NextMemory]_vars

----------------------------------------------------------------------------
(* ExtendedRAGPipeline.ask_question: the web search gate *)

Questions == {QPrice, QPriceCaps, QShort}

\* lines 176-219. The local search, the fusion and the answer generation do not touch
\* the memory or the counters; each of them catches its own exceptions.
ask_question(question, use_web) ==
    /\ stats.total_queries < MaxAsk
    /\ LET hit == IsRecentlySearched(interactions, clock, question, DefaultLookupHours)
           searched == use_web /\ ~hit
           search_queries == IF searched THEN <<question>> ELSE <<>>
       IN  /\ stats' = [total_queries |-> stats.total_queries + 1,
                        local_searches |-> stats.local_searches + 1,
                        web_searches |-> stats.web_searches + (IF searched THEN 1 ELSE 0),
                        cache_hits |-> stats.cache_hits + (IF use_web /\ hit THEN 1 ELSE 0)]
           /\ interactions' = AddInteraction(interactions, clock, search_queries,
                                             max_memory, ttl_hours)
           /\ mret' = [NoCall EXCEPT !.op = "ask", !.query = question, !.use_web = use_web,
                                     !.hours = DefaultLookupHours, !.at = clock,
                                     !.value = searched]
           /\ search_log' = {[e EXCEPT !.since = @ + 1] : e \in search_log}
                            \cup (IF searched
                                  THEN {[query |-> question, time |-> clock, since |-> 0]}
                                  ELSE {})
    /\ UNCHANGED <<max_memory, ttl_hours, clock, offMemVars>>

\* The pipeline builds ConversationMemory() with room for 10 interactions kept 24 hours;
\* the model runs it with room for 1..MaxMemoryBound.
InitPipeline ==
    /\ SearchIdle /\ AgentIdle
    /\ max_memory \in 1..MaxMemoryBound
    /\ ttl_hours = DefaultTtlHours
    /\ interactions = <<>> /\ clock = 0 /\ mret = NoCall
    /\ stats = NoStats /\ search_log = {}
    /\ FuseIdle /\ ExtIdle

NextPipeline ==
    \/ \E question \in Questions, use_web \in BOOLEAN : ask_question(question, use_web)
    \/ MemTick

SpecPipeline == InitPipeline /\ [][NextPipeline]_vars

----------------------------------------------------------------------------
(* ExtendedRAGPipeline._fuse_results *)

\* A Python float near t/10: err = 0 is the double of the decimal t/10, err = -1 the
\* double just below it, err = 1 the double just above it.
F(t) == [t |-> t, err |-> 0]

\* IEEE 754 double addition x + d/10 for the sums _calculate_relevance_score can make:
\* 0.8 - 0.2 = 0.6000000000000001, 0.7 - 0.2 = 0.49999999999999994,
\* 0.7 + 0.1 = 0.7999999999999999; the other sums give the double of the decimal.
FAdd(x, d) ==
    [t |-> x.t + d,
     err |-> CASE x = F(8) /\ d = -2 -> 1
               [] x = F(7) /\ d = -2 -> -1
               [] x = F(7) /\ d = 1 -> -1
               [] OTHER -> x.err]

FLess(a, b) == a.t < b.t \/ (a.t = b.t /\ a.err < b.err)
FMin(a, b) == IF FLess(b, a) THEN b ELSE a
FMax(a, b) == IF FLess(a, b) THEN b ELSE a

\* datetime.now() at the time of the fusion, in hours
FuseNow == 200

\* dict.get(key, default)
GetOr(d, key, default) == IF key \in DOMAIN d THEN d[key] ELSE default

\* d[key] = value
WithField(d, key, value) ==
    [f \in DOMAIN d \cup {key} |-> IF f = key THEN value ELSE d[f]]

\* Chunks; text_len is len(chunk["text"]), timestamp is in hours.
\* _search_local, lines 249-255
LocalChunk(text_len) ==
    [text_len |-> text_len, source |-> "local_documents", source_type |-> "local",
     relevance_score |-> F(8)]

\* html_parser.py: chunk_text line 355-363 with the metadata of process_search_result
ProcessedChunk(text_len, timestamp) ==
    [text_len |-> text_len, source |-> "web", source_type |-> "web_page",
     timestamp |-> timestamp]

\* a chunk tagged "web" by some other caller of _fuse_results
WebTaggedChunk(text_len, timestamp) ==
    [text_len |-> text_len, source_type |-> "web", timestamp |-> timestamp]

LocalAlphabet ==
    { LocalChunk(99), LocalChunk(1001), [text_len |-> 100, source |-> "notes"] }

WebAlphabet ==
    { WebTaggedChunk(1000, FuseNow - 23), WebTaggedChunk(99, FuseNow - 24),
      WebTaggedChunk(1001, FuseNow - 168), ProcessedChunk(500, FuseNow - 1) }

\* lines 355-381
CalculateRelevanceScore(result) ==
    LET source_type == GetOr(result, "source_type", "None")
        hours_old == FuseNow - GetOr(result, "timestamp", 0)
        s1 == IF source_type = "web"
              THEN IF hours_old < DayHours THEN FAdd(F(5), 3)
                   ELSE IF hours_old < WeekHours THEN FAdd(F(5), 2)
                   ELSE F(5)
              ELSE F(5)
        s2 == IF source_type = "local" THEN FAdd(s1, 2) ELSE s1
        text_length == GetOr(result, "text_len", 0)
        s3 == IF text_length < ShortText THEN FAdd(s2, -2)
              ELSE IF text_length > LongText THEN FAdd(s2, 1)
              ELSE s2
    IN  FMax(F(0), FMin(F(10), s3))

\* lines 336-337
Scored(results) ==
    [i \in 1..Len(results) |->
        WithField(results[i], "relevance_score", CalculateRelevanceScore(results[i]))]

\* x put behind the elements of the descending list s that do not score less than it
InsertDesc(x, s) ==
    LET k == Cardinality({i \in 1..Len(s) : ~FLess(s[i].relevance_score, x.relevance_score)})
    IN  SubSeq(s, 1, k) \o <<x>> \o SubSeq(s, k + 1, Len(s))

\* Mutation of SortedDesc: no sorting
SortedDesc_Unsorted(s) == s

\* lines 340-342: sorted(..., reverse=True) is stable
RECURSIVE SortedDesc(_)
SortedDesc(s) ==
    IF s = <<>> THEN <<>>
    ELSE InsertDesc(s[Len(s)], SortedDesc(SubSeq(s, 1, Len(s) - 1)))

\* Mutation of DiversifySources: one chunk more than the cap is let through
RECURSIVE DiversifySources_OneMore(_, _)
DiversifySources_OneMore(results, max_per_source) ==
    IF results = <<>> THEN <<>>
    ELSE LET diversified == DiversifySources_OneMore(SubSeq(results, 1, Len(results) - 1),
                                                     max_per_source)
             result == results[Len(results)]
             source_type == GetOr(result, "source_type", "unknown")
             count == Cardinality({i \in 1..Len(diversified) :
                                      GetOr(diversified[i], "source_type", "unknown") = source_type})
         IN  IF count <= max_per_source THEN Append(diversified, result) ELSE diversified

\* lines 383-397
RECURSIVE DiversifySources(_, _)
DiversifySources(results, max_per_source) ==
    IF results = <<>> THEN <<>>
    ELSE LET diversified == DiversifySources(SubSeq(results, 1, Len(results) - 1),
                                             max_per_source)
             result == results[Len(results)]
             source_type == GetOr(result, "source_type", "unknown")
             count == Cardinality({i \in 1..Len(diversified) :
                                      GetOr(diversified[i], "source_type", "unknown") = source_type})
         IN  IF count < max_per_source THEN Append(diversified, result) ELSE diversified

\* s[:n]
FirstN(s, n) == IF Len(s) <= n THEN s ELSE SubSeq(s, 1, n)

\* lines 333-353
FuseResults(local, web) ==
    FirstN(DiversifySources(SortedDesc(Scored(local \o web)), MaxPerSource), MaxFused)

\* Lists of results: a pattern of chunks repeated.
RECURSIVE Repeat(_, _)
Repeat(s, n) == IF n = 0 THEN <<>> ELSE s \o Repeat(s, n - 1)

Patterns(alphabet) == UNION {[1..n -> alphabet] : n \in 0..MaxPattern}

\* Each chunk is its own object: uid tells the chunks of the two lists apart.
Tagged(s, base) == [i \in 1..Len(s) |-> WithField(s[i], "uid", base + i)]

fuse_results ==
    /\ fpc = "input"
    /\ fused' = FuseResults(local_results, web_results)
    /\ fpc' = "done"
    /\ UNCHANGED <<local_results, web_results, offFuseVars>>

InitFuse ==
    /\ SearchIdle /\ AgentIdle /\ MemoryIdle /\ ExtIdle
    /\ \E lp \in Patterns(LocalAlphabet), wp \in Patterns(WebAlphabet), n \in 1..MaxRep :
          /\ local_results = Tagged(Repeat(lp, n), 0)
          /\ web_results = Tagged(Repeat(wp, n), n * Len(lp))
    /\ fused = <<>> /\ fpc = "input"

NextFuse == fuse_results

SpecFuse == InitFuse /\ [][NextFuse]_vars



----------------------------------------------------------------------------
(* Properties of the circuit breaker                    (checked under SpecSearch) *)

\* A step in which a search() call starts (the other step from "idle" is Tick)
CallStarts == pc = "idle" /\ now' = now

\* C1: from a fresh breaker (or one reset by a success), after k consecutive failed
\* calls the breaker is still CLOSED with failure_count = k while k < failure_threshold,
\* and it is OPEN with failure_count = failure_threshold once the failure_threshold-th
\* consecutive failure is recorded.
C1_TripsAtThreshold ==
    pc = "idle" =>
        /\ (consec < failure_threshold => state = "CLOSED" /\ failure_count = consec)
        /\ (consec = failure_threshold => state = "OPEN" /\ failure_count = failure_threshold)

C1_Witness ==
    /\ pc = "idle" /\ failure_threshold >= 2
    /\ consec = failure_threshold /\ state = "OPEN" /\ raised = "search_failed"

\* C2: a call made while the breaker is OPEN and recovery_timeout has not elapsed since
\* last_failure_time fails at once with the circuit-open error, makes no provider
\* invocation, and leaves state, failure_count and last_failure_time as they were.
C2_OpenRejects ==
    [][ (CallStarts /\ state = "OPEN" /\ now - last_failure_time[1] <= recovery_timeout)
        => /\ pc' = "idle" /\ raised' = "circuit_open" /\ calls' = 0
           /\ state' = state /\ failure_count' = failure_count
           /\ last_failure_time' = last_failure_time ]_vars

C2_Witness ==
    /\ pc = "idle" /\ raised = "circuit_open" /\ calls = 0 /\ state = "OPEN"
    /\ now - last_failure_time[1] = recovery_timeout

\* C3: once recovery_timeout has elapsed on an OPEN breaker the next call puts it in
\* HALF_OPEN and is admitted; HALF_OPEN lasts for that one call only; if the trial
\* succeeds the breaker is CLOSED with failure_count = 0, if it fails the breaker is
\* OPEN with last_failure_time the time of that failure, so that the next call is
\* rejected until a full recovery_timeout has passed again.
C3_HalfOpenTrial ==
    [][ /\ (CallStarts /\ state = "OPEN" /\ now - last_failure_time[1] > recovery_timeout
              /\ vars' # vars)
           => (state' = "HALF_OPEN" /\ pc' = "loop" /\ calls' = 0)
        /\ (state' = "HALF_OPEN" => pc' = "loop")
        /\ (state = "HALF_OPEN" /\ pc' = "idle")
           => IF raised' = "none"
              THEN state' = "CLOSED" /\ failure_count' = 0
              ELSE /\ state' = "OPEN"
                   /\ last_failure_time' = <<now'>>
                   /\ ~(now' - last_failure_time'[1] > recovery_timeout) ]_vars

C3_Witness ==
    /\ pc = "idle" /\ state = "OPEN" /\ consec = failure_threshold + 1
    /\ raised = "search_failed" /\ last_failure_time = <<now>>

----------------------------------------------------------------------------
(* Properties of the retry loop          (checked under SpecSearch / FairSpecSearch) *)

IsClientError(l) == l.kind = "HTTPError" /\ l.status >= 400 /\ l.status < 500 /\ l.status # 429
IsServerError(l) == l.kind = "HTTPError" /\ l.status >= 500

\* C5: every search call ends; one call invokes the provider at most max_retries times,
\* and exactly max_retries times when every attempt ends in a timeout or a connection
\* error.
C5_BoundedRetries ==
    /\ [](calls <= max_retries)
    /\ []((pc = "idle" /\ raised = "search_failed" /\ transient_only) => calls = max_retries)
    /\ ((pc = "loop") ~> (pc = "idle"))

C5_Witness ==
    /\ pc = "idle" /\ raised = "search_failed" /\ transient_only
    /\ max_retries >= 2 /\ calls = max_retries

\* C6 (as claimed): HTTP 429 responses consume no retry slot, so a call that runs out
\* of retries has made max_retries attempts that were not answered by a 429.
C6_RateLimitKeepsBudget ==
    (pc = "idle" /\ raised = "search_failed" /\ ~IsClientError(last))
        => calls - n429 = max_retries

\* C7: an HTTP 4xx response other than 429 ends the search call at once: no sleep
\* follows it and the provider is not invoked again in that call.
C7_ClientErrorFailsFast ==
    IsClientError(last)
        => /\ pc = "idle" /\ raised # "none"
           /\ last.sleep = 0
           /\ calls = last.attempt + 1

C7_Witness ==
    /\ IsClientError(last) /\ raised = "search_failed"
    /\ last.attempt + 1 < max_retries

\* C8 (as claimed): after an HTTP 5xx response with attempts left, the call sleeps 5 s
\* and goes on to invoke the provider again.
C8_ServerErrorRetried ==
    (IsServerError(last) /\ last.attempt < max_retries - 1)
        => (last.sleep = ServerErrorWait /\ pc = "loop")

\* C9 (as claimed): after failed attempt k, with a retry to come, the call sleeps 2^k
\* seconds, for a timeout and for a connection error alike.
C9_ExponentialBackoff ==
    (last.kind \in {"Timeout", "ConnectionError"} /\ last.attempt < max_retries - 1)
        => last.sleep = Pow2(last.attempt)

\* C9 (amended): after a timeout at attempt k, with a retry to come, the call sleeps
\* 2^k seconds; after a connection error it sleeps 1 second whatever k is.
C9_BackoffByKind ==
    /\ (last.kind = "Timeout" /\ last.attempt < max_retries - 1)
           => (last.sleep = Pow2(last.attempt) /\ pc = "loop")
    /\ (last.kind = "ConnectionError" /\ last.attempt < max_retries - 1)
           => (last.sleep = OtherErrorWait /\ pc = "loop")

C9_Witness ==
    /\ last.kind = "Timeout" /\ last.attempt = 1 /\ last.sleep = 2 /\ pc = "loop"

\* C10 (as claimed): a search that fails (breaker OPEN, retries exhausted, non-429 4xx)
\* ends in a SearchUnavailable failure, not in a list.
C10_FailureIsSignalled ==
    (pc = "idle" /\ raised # "none") => ret.kind = "SearchUnavailable"

\* C10 (amended): search always returns a list: the validated results when the call
\* succeeds, the empty list when it fails; the failure is only logged.
C10_FailureReturnsEmptyList ==
    pc = "idle" =>
        /\ (raised # "none" => ret = [kind |-> "list", items |-> <<>>])
        /\ (raised = "none" /\ calls > 0
               => /\ ret.kind = "list"
                  /\ \A i \in 1..Len(ret.items) : IsValidResult(ret.items[i]))

C10_Witness ==
    /\ pc = "idle" /\ raised = "circuit_open" /\ ret = [kind |-> "list", items |-> <<>>]

\* C11: search returns a list for every query and every provider outcome: once a call
\* has ended, whether it succeeded, failed in the retry loop or was rejected by the
\* open breaker, what the caller holds is a list and no exception has reached it.
C11_CallEnded == pc = "idle" /\ (last.kind # "none" \/ raised # "none")

C11_AlwaysReturnsList ==
    /\ (C11_CallEnded => ret.kind = "list")
    /\ (pc = "loop" => ret = NoReturn)

C11_Witness ==
    /\ C11_CallEnded /\ raised = "TypeError" /\ last.kind = "HTTPError"
    /\ ret.kind = "list"

\* The characters of s between its first and its last non-blank character.
C12_Trim(s) ==
    IF \A i \in 1..Len(s) : s[i] = " " THEN <<>>
    ELSE LET a == CHOOSE i \in 1..Len(s) : s[i] # " " /\ \A j \in 1..(i-1) : s[j] = " "
             b == CHOOSE i \in 1..Len(s) : s[i] # " " /\ \A j \in (i+1)..Len(s) : s[j] = " "
         IN SubSeq(s, a, b)

\* A provider item that has a title, an http(s) address and a body, with a trimmed
\* title of at least 3 characters and a trimmed body of at least 10.
C12_Accept(item) ==
    /\ {"title", "href", "body"} \subseteq DOMAIN item
    /\ \E p \in {C_http, C_https} : Len(item.href) >= Len(p) /\ SubSeq(item.href, 1, Len(p)) = p
    /\ Len(C12_Trim(item.title)) >= 3
    /\ Len(C12_Trim(item.body)) >= 10

C12_Kept(raw) == {i \in 1..Len(raw) : C12_Accept(raw[i])}

\* C12: the list a successful search returns is exactly the order-preserving
\* subsequence of the provider's items that have title, address and body, an address
\* starting with http:// or https://, a trimmed title of at least 3 characters and a
\* trimmed snippet of at least 10; the rejected items are dropped without turning the
\* call into a failure and without counting as a breaker failure.
C12_ValidatedSubsequence ==
    (pc = "idle" /\ last.kind = "ok") =>
        LET raw == last.raw
            K == C12_Kept(raw)
        IN /\ ret.kind = "list" /\ Len(ret.items) = Cardinality(K)
           /\ \E f \in [1..Len(ret.items) -> K] :
                  /\ \A i, j \in 1..Len(ret.items) : i < j => f[i] < f[j]
                  /\ \A j \in 1..Len(ret.items) :
                         /\ ret.items[j].url = raw[f[j]].href
                         /\ ret.items[j].title = C12_Trim(raw[f[j]].title)
                         /\ ret.items[j].snippet = C12_Trim(raw[f[j]].body)
           /\ raised = "none" /\ state = "CLOSED" /\ failure_count = 0

C12_Witness ==
    /\ pc = "idle" /\ last.kind = "ok"
    /\ last.raw = <<ItemShortTitle, ItemMinimal, ItemShortSnippet, ItemGood>>
    /\ Len(ret.items) = 2 /\ ret.items[1].url = ItemMinimal.href
    /\ state = "CLOSED" /\ failure_count = 0

----------------------------------------------------------------------------
(* Properties of answer_question                         (checked under SpecAgent) *)

ContractKeys == {"answer", "sources", "search_strategy", "processing_time", "sub_questions_count"}

\* C4 (as claimed): answer_question returns, without raising, an object that has all
\* of answer, sources, search_strategy, processing_time and sub_questions_count.
C4_WellFormedAlways ==
    total_questions > 0 => (response.kind = "dict" /\ ContractKeys \subseteq response.keys)

\* C4 (amended): answer_question returns, without raising, an object that has answer,
\* search_strategy and processing_time; it has sources and sub_questions_count too when
\* a strategy was run (search_strategy single, parallel or sequential), and lacks both
\* in the degraded cases "unavailable" and "error".
C4_WellFormedByCase ==
    total_questions > 0 =>
        /\ response.kind = "dict"
        /\ {"answer", "search_strategy", "processing_time"} \subseteq response.keys
        /\ IF response.search_strategy \in {"single", "parallel", "sequential"}
           THEN ContractKeys \subseteq response.keys
           ELSE /\ response.search_strategy \in {"unavailable", "error"}
                /\ response.keys \cap {"sources", "sub_questions_count"} = {}
                /\ (response.search_strategy = "error" <=> "error" \in response.keys)

C4_Witness ==
    /\ total_questions > 0 /\ response.search_strategy = "error" /\ pipeline_calls = 2

----------------------------------------------------------------------------
(* Properties of ConversationMemory                     (checked under SpecMemory) *)

\* C13: after any sequence of add_interaction, get_recent_context and
\* is_recently_searched calls the memory holds at most max_memory interactions.
C13_AtMostMaxMemory == Len(interactions) <= max_memory

C13_Witness ==
    /\ mret.op = "add" /\ max_memory >= 1 /\ clock >= 1
    /\ Len(interactions) = max_memory
    /\ \A i \in 1..Len(interactions) : interactions[i].timestamp = clock

\* C14 (as claimed): whatever the hours argument, get_recent_context returns no
\* interaction older than ttl_hours, and is_recently_searched answers True only when an
\* interaction no older than ttl_hours, recorded within the window, holds a similar query.
C14_ExpiredUnreachable ==
    /\ (mret.op = "context" =>
           \A k \in 1..Len(mret.context) : mret.at - mret.context[k].timestamp <= ttl_hours)
    /\ (mret.op = "probe" /\ mret.value =>
           \E i \in 1..Len(interactions) :
               /\ mret.at - interactions[i].timestamp <= ttl_hours
               /\ interactions[i].timestamp > mret.at - mret.hours
               /\ AnySimilar(mret.query, interactions[i].search_queries))

JaccardAbove(a, b) ==
    LET A == {Lower(a[i]) : i \in 1..Len(a)}
        B == {Lower(b[i]) : i \in 1..Len(b)}
    IN  /\ A \cup B # {}
        /\ 10 * Cardinality(A \cap B) > 7 * Cardinality(A \cup B)

\* C17: is_recently_searched(query, hours) is True exactly when an interaction recorded
\* less than hours ago holds a search query whose lower-cased word set has a Jaccard
\* index above 0.7 with that of the probe; two queries without words are not similar.
C17_ProbeIffSimilarInWindow ==
    mret.op = "probe" =>
        /\ mret.value <=>
              \E i \in 1..Len(interactions) :
                  /\ mret.at - interactions[i].timestamp < mret.hours
                  /\ \E k \in 1..Len(interactions[i].search_queries) :
                         JaccardAbove(mret.query, interactions[i].search_queries[k])
        /\ ((/\ mret.query = QEmpty
              /\ \A i \in 1..Len(interactions) :
                     interactions[i].search_queries \in { <<>>, <<QEmpty>> })
               => ~mret.value)

C17_Witness ==
    /\ mret.op = "probe" /\ mret.value /\ mret.query = QPriceCaps /\ mret.hours = 2
    /\ Len(interactions) = 2
    /\ interactions[1] = [timestamp |-> mret.at - 1, search_queries |-> <<QPrice>>]
    /\ interactions[2].search_queries = <<QEmpty>>

----------------------------------------------------------------------------
(* Properties of the web search gate                  (checked under SpecPipeline) *)

\* A step that is one ask_question call.
AskStep == mret'.op = "ask" /\ stats'.total_queries = stats.total_queries + 1

\* C15 (as claimed): when a web-enabled question has triggered a web search and a
\* similar question is asked again less than an hour later, the later request makes no
\* web search and is counted as a cache hit; asked once the hour has passed, it
\* triggers the web search again.
C15_GateByWindow ==
    [][ (AskStep /\ mret'.use_web) =>
          LET similar == {e \in search_log : JaccardAbove(mret'.query, e.query)}
              inWindow == {e \in similar : clock - e.time < DefaultLookupHours}
          IN  /\ (inWindow # {} =>
                     /\ ~mret'.value
                     /\ stats'.cache_hits = stats.cache_hits + 1
                     /\ stats'.web_searches = stats.web_searches)
              /\ (similar # {} /\ inWindow = {} =>
                     /\ mret'.value
                     /\ stats'.web_searches = stats.web_searches + 1)
      ]_vars

\* C15 (amended): the later request makes no web search and is a cache hit as long as
\* the interaction of the searching request is still among the max_memory most recent
\* ones; once the hour has passed, or once that interaction has been displaced, the
\* question triggers the web search again.
C15_GateWhileRemembered ==
    [][ (AskStep /\ mret'.use_web) =>
          LET similar == {e \in search_log : JaccardAbove(mret'.query, e.query)}
              remembered == {e \in similar : /\ clock - e.time < DefaultLookupHours
                                             /\ e.since < max_memory}
          IN  IF remembered # {}
              THEN /\ ~mret'.value
                   /\ stats'.cache_hits = stats.cache_hits + 1
                   /\ stats'.web_searches = stats.web_searches
              ELSE /\ mret'.value
                   /\ stats'.web_searches = stats.web_searches + 1
                   /\ stats'.cache_hits = stats.cache_hits
      ]_vars

C15_Witness ==
    /\ mret.op = "ask" /\ mret.use_web /\ mret.value /\ mret.query = QPriceCaps
    /\ stats.cache_hits >= 1
    /\ \E e \in search_log : e.query = QPrice /\ e.time < mret.at /\ e.since < max_memory

----------------------------------------------------------------------------
(* Properties of _fuse_results                            (checked under SpecFuse) *)

SourceTypeOf(chunk) == IF "source_type" \in DOMAIN chunk THEN chunk.source_type ELSE "unknown"

\* C18: whatever the sizes of the two lists and the source types of their chunks, the
\* fused list has at most 10 chunks and at most 3 chunks of any one source type.
C18_BoundedAndDiverse ==
    fpc = "done" =>
        /\ Len(fused) <= 10
        /\ \A i \in 1..Len(fused) :
               Cardinality({j \in 1..Len(fused) :
                               SourceTypeOf(fused[j]) = SourceTypeOf(fused[i])}) <= 3

C18_Witness ==
    /\ fpc = "done" /\ Len(fused) = 10
    /\ Len(local_results) + Len(web_results) = 12
    /\ Cardinality({SourceTypeOf(fused[i]) : i \in 1..Len(fused)}) = 4

\* The chunks handed to the call, in merge order (local first).
MergeList == local_results \o web_results

\* C19: the fused list is the merge list local ++ web ranked by score descending, ties
\* in merge order (position j before position k when the scores are equal and j < k, so
\* local before web), cut to the first 3 chunks of each source type and then to the
\* first 10 chunks: every fused chunk is one chunk of the input with its score
\* attached, no chunk appears twice, and no chunk the reference keeps is missing.
C19_ReferenceResult ==
    fpc = "done" =>
        LET n == Len(MergeList)
            score == [j \in 1..n |-> CalculateRelevanceScore(MergeList[j])]
            before == [j \in 1..n |-> {k \in 1..n : \/ FLess(score[j], score[k])
                                                     \/ (score[k] = score[j] /\ k < j)}]
            withinTypeCap == {j \in 1..n :
                                Cardinality({k \in before[j] :
                                    SourceTypeOf(MergeList[k]) = SourceTypeOf(MergeList[j])}) < 3}
            kept == {j \in withinTypeCap : Cardinality(before[j] \cap withinTypeCap) < 10}
        IN  /\ Len(fused) = Cardinality(kept)
            /\ \A i \in 1..Len(fused) :
                   \E j \in kept :
                       /\ fused[i] = WithField(MergeList[j], "relevance_score", score[j])
                       /\ Cardinality(before[j] \cap kept) = i - 1

C19_Witness ==
    /\ fpc = "done" /\ Len(fused) = 10 /\ Len(MergeList) = 12
    /\ \E i, k \in 1..Len(fused) :
          /\ i < k /\ fused[i].relevance_score = fused[k].relevance_score
          /\ SourceTypeOf(fused[i]) = "local" /\ SourceTypeOf(fused[k]) = "web"

\* The score the rule gives, in tenths: 5, plus 3 or 2 for a web chunk by its age, plus
\* 2 for a local chunk, minus 2 for a short text, plus 1 for a long one.
C20_RuleTenths(chunk, isWeb) ==
    LET age == FuseNow - (IF "timestamp" \in DOMAIN chunk THEN chunk.timestamp ELSE 0)
        len == IF "text_len" \in DOMAIN chunk THEN chunk.text_len ELSE 0
    IN  5 + (IF isWeb THEN (IF age < 24 THEN 3 ELSE IF age < 168 THEN 2 ELSE 0) ELSE 0)
          + (IF SourceTypeOf(chunk) = "local" THEN 2 ELSE 0)
          + (IF len < 100 THEN -2 ELSE IF len > 1000 THEN 1 ELSE 0)

\* C20 (as claimed): every fused chunk carries the score of the rule, to the rounding
\* of the floating point sums, and the chunks the web retrieval path hands to fusion
\* (those process_search_result builds) have source type "web" and get the web bonus.
C20_ScoreRule ==
    fpc = "done" =>
        \A i \in 1..Len(fused) :
            LET c == fused[i]
                fromWebPath == "source" \in DOMAIN c /\ c.source = "web"
            IN  /\ fromWebPath => SourceTypeOf(c) = "web"
                /\ c.relevance_score.t =
                       C20_RuleTenths(c, fromWebPath \/ SourceTypeOf(c) = "web")

----------------------------------------------------------------------------
(* SearchPlanner (agent_orchestrator.py:28-114)                            *)
(* The text of a question is a sequence of characters; an accented letter  *)
(* is one character, written "e_acute", "u_grave", "u_circ".               *)

\* str.lower() on one character
CharLower(c) ==
    LET upper == <<"A","B","C","D","E","F","G","H","I","J",
                 "K","L","M","N","O","P","Q","R","S","T","U","V","W","X","Y","Z">>
        lower == <<"a","b","c","d","e","f","g","h","i","j",
                 "k","l","m","n","o","p","q","r","s","t","u","v","w","x","y","z">>
    IN  IF \E i \in 1..Len(upper) : upper[i] = c
        THEN lower[CHOOSE i \in 1..Len(upper) : upper[i] = c]
        ELSE c

\* str.lower()
LowerText(s) == [i \in 1..Len(s) |-> CharLower(s[i])]

\* p occurs in s at position i
MatchAt(s, i, p) == i + Len(p) - 1 <= Len(s) /\ SubSeq(s, i, i + Len(p) - 1) = p

\* the Python test "p in s"
Contains(s, p) == \E i \in 1..(Len(s) + 1) : MatchAt(s, i, p)

\* str.split(): the maximal runs of characters that are not spaces
RECURSIVE SplitWords(_)
SplitWords(s) ==
    LET t == LStrip(s)
    IN  IF t = <<>> THEN <<>>
        ELSE LET n == IF \E i \in 1..Len(t) : t[i] = " "
                      THEN (CHOOSE i \in 1..Len(t) :
                                t[i] = " " /\ \A j \in 1..(i - 1) : t[j] # " ") - 1
                      ELSE Len(t)
             IN  <<SubSeq(t, 1, n)>> \o SplitWords(SubSeq(t, n + 1, Len(t)))

\* str.count(c)
CountChar(s, c) == Cardinality({i \in 1..Len(s) : s[i] = c})

\* The alternative of a regular expression a|b|... that matches at position i: the
\* first one in the order written, 0 if none does.
AltAt(s, i, alts) ==
    IF \E k \in 1..Len(alts) : MatchAt(s, i, alts[k])
    THEN CHOOSE k \in 1..Len(alts) :
             MatchAt(s, i, alts[k]) /\ \A j \in 1..(k - 1) : ~MatchAt(s, i, alts[j])
    ELSE 0

\* re.split(r'(?:a|b|...)', s): the text between the matches, found left to right;
\* start is where the current part begins, i the position examined.
RECURSIVE ReSplitFrom(_, _, _, _)
ReSplitFrom(s, alts, start, i) ==
    IF i > Len(s) THEN <<SubSeq(s, start, Len(s))>>
    ELSE LET k == AltAt(s, i, alts)
         IN  IF k = 0 THEN ReSplitFrom(s, alts, start, i + 1)
             ELSE <<SubSeq(s, start, i - 1)>>
                  \o ReSplitFrom(s, alts, i + Len(alts[k]), i + Len(alts[k]))

ReSplit(s, alts) == ReSplitFrom(s, alts, 1, 1)

\* re.search of a|b|... compiled with re.I (the alternatives are written in lower case)
SearchIgnoreCase(alts, s) == \E k \in 1..Len(alts) : Contains(LowerText(s), alts[k])

\* lines 32-37: the alternatives of the four patterns, in the order comparison,
\* multi_aspect, temporal, quantitative
PlannerPatterns ==
    <<<<<<"c","o","m","p","a","r","e","r">>,
        <<"c","o","m","p","a","r","a","i","s","o","n">>, <<"v","s">>,
        <<"v","e","r","s","u","s">>, <<"d","i","f","f","e_acute","r","e","n","c","e">>>>,
      <<<<"e","t">>, <<"a","i","n","s","i"," ","q","u","e">>,
        <<"e_acute","g","a","l","e","m","e","n","t">>, <<"p","l","u","s">>,
        <<"c","o","m","m","e","n","t">>, <<"p","o","u","r","q","u","o","i">>,
        <<"q","u","a","n","d">>, <<"o","u_grave">>>>,
      <<<<"a","u","j","o","u","r","d","'","h","u","i">>, <<"h","i","e","r">>,
        <<"d","e","m","a","i","n">>, <<"c","e","t","t","e"," ","a","n","n","e_acute","e">>,
        <<"d","e","r","n","i","e","r">>, <<"p","r","o","c","h","a","i","n">>,
        <<"r","e_acute","c","e","m","m","e","n","t">>>>,
      <<<<"p","r","i","x">>, <<"c","o","u_circ","t">>, <<"v","a","l","e","u","r">>,
        <<"m","o","n","t","a","n","t">>, <<"c","h","i","f","f","r","e">>,
        <<"s","t","a","t","i","s","t","i","q","u","e">>,
        <<"p","o","u","r","c","e","n","t","a","g","e">>>>>>

\* lines 71-76
WebIndicators == <<<<"a","u","j","o","u","r","d","'","h","u","i">>, <<"a","c","t","u","e","l","l",
        "e","m","e","n","t">>, <<"r","e_acute","c","e","m","m","e","n","t">>, <<"d","e","r","n",
        "i","e","r">>,
                   <<"n","o","u","v","e","a","u">>, <<"p","r","i","x">>, <<"c","o","u_circ",
        "t">>, <<"v","a","l","e","u","r">>, <<"s","t","a","t","i","s","t","i","q","u","e">>,
                   <<"a","c","t","u","a","l","i","t","e_acute">>, <<"n","e","w","s">>, <<"m",
        "e_acute","t","e_acute","o">>, <<"t","e","m","p","e_acute","r","a","t","u","r","e">>,
                   <<"p","r","e_acute","v","i","s","i","o","n">>, <<"c","o","u","r","s">>, <<"b",
        "o","u","r","s","e">>, <<"s","i","t","e"," ","w","e","b">>, <<"i","n","t","e","r","n","e",
        "t">>,
                   <<"o","n","l","i","n","e">>, <<"d","i","s","p","o","n","i","b","l","e">>>>

\* line 96
ConjunctionWords == <<<<"e","t">>, <<"o","u">>, <<"m","a","i","s">>>>

\* line 110
Connectors == <<<<"e","t">>, <<"o","u">>, <<"m","a","i","s">>, <<"a","i","n","s","i"," ","q","u",
        "e">>, <<"e_acute","g","a","l","e","m","e","n","t">>>>

LongQuestionWords == 15      \* line 87
SplitQuestionWords == 20     \* line 108
MaxComplexity == 10          \* line 99
SequentialAbove == 7         \* line 56

\* Mutation of NeedsWebSearch: every indicator has to occur
NeedsWebSearch_All(q) ==
    \A k \in 1..Len(WebIndicators) : Contains(LowerText(q), WebIndicators[k])

\* _needs_web_search, lines 67-79
NeedsWebSearch(q) ==
    \E k \in 1..Len(WebIndicators) : Contains(LowerText(q), WebIndicators[k])

\* _assess_complexity, lines 81-99
AssessComplexity(q) ==
    LET complexity ==
            (IF Len(SplitWords(q)) > LongQuestionWords THEN 2 ELSE 0)
            + 2 * Cardinality({k \in 1..Len(PlannerPatterns) : SearchIgnoreCase(PlannerPatterns[k], q)})
            + (IF \/ CountChar(q, "?") > 1
                  \/ \E k \in 1..Len(ConjunctionWords) :
                         Contains(LowerText(q), ConjunctionWords[k])
               THEN 3 ELSE 0)
    IN  IF complexity < MaxComplexity THEN complexity ELSE MaxComplexity

\* the parts of line 112 that are not blank, stripped and suffixed with "?"
RECURSIVE SuffixedParts(_)
SuffixedParts(parts) ==
    IF parts = <<>> THEN <<>>
    ELSE IF Strip(Head(parts)) # <<>>
         THEN <<Strip(Head(parts)) \o <<"?">>>> \o SuffixedParts(Tail(parts))
         ELSE SuffixedParts(Tail(parts))

\* _break_down_question, lines 101-114
BreakDownQuestion(q) ==
    IF Len(SplitWords(q)) > SplitQuestionWords
    THEN LET parts == ReSplit(q, Connectors)
         IN  IF Len(parts) > 1 THEN SuffixedParts(parts) ELSE <<q>>
    ELSE <<q>>

\* Mutation of AnalyzeQuestion: the strategy is chosen with complexity >= 7
AnalyzeQuestion_AtLeast(q) ==
    LET complexity == AssessComplexity(q)
        sub_questions == BreakDownQuestion(q)
    IN  [needs_web |-> NeedsWebSearch(q),
         complexity |-> complexity,
         sub_questions |-> sub_questions,
         search_strategy |->
             IF Len(sub_questions) > 1
             THEN IF complexity >= SequentialAbove THEN "sequential" ELSE "parallel"
             ELSE "single",
         estimated_searches |-> EstimatedSearches(Len(sub_questions))]

\* analyze_question, lines 39-65
AnalyzeQuestion(q) ==
    LET complexity == AssessComplexity(q)
        sub_questions == BreakDownQuestion(q)
    IN  [needs_web |-> NeedsWebSearch(q),
         complexity |-> complexity,
         sub_questions |-> sub_questions,
         search_strategy |-> SearchStrategy(Len(sub_questions), complexity),
         estimated_searches |-> EstimatedSearches(Len(sub_questions))]

\* The words questions are made of: "prix", "et", "ou", "ET", "Bitcoin?", "Pourquoi",
\* "versus", "hier"
PlannerTokens ==
    {<<"p","r","i","x">>, <<"e","t">>, <<"o","u">>, <<"E","T">>,
     <<"B","i","t","c","o","i","n","?">>, <<"P","o","u","r","q","u","o","i">>,
     <<"v","e","r","s","u","s">>, <<"h","i","e","r">>}

\* The words questions are padded with: "le", "ou"
PadWords == {<<"l","e">>, <<"o","u">>}

\* " ".join(words)
RECURSIVE JoinWords(_)
JoinWords(words) ==
    IF words = <<>> THEN <<>>
    ELSE IF Len(words) = 1 THEN words[1]
    ELSE words[1] \o <<" ">> \o JoinWords(Tail(words))

QBitcoinEnglish == <<"W","h","a","t"," ","i","s"," ","t","h","e"," ","B","i","t","c","o","i","n",
        " ","p","r","i","c","e"," ","t","o","d","a","y","?">>
QBitcoinFrench == <<"Q","u","e","l"," ","e","s","t"," ","l","e"," ","p","r","i","x"," ","d","u",
        " ","B","i","t","c","o","i","n"," ","a","u","j","o","u","r","d","'","h","u","i","?">>

\* The numbers of padding words: none, and what brings a question next to each of the
\* two word-count limits.
PadChoices == {0, LongQuestionWords - 1, SplitQuestionWords - 1}

PlannerQuestions ==
    {JoinWords(Repeat(<<w>>, k) \o ts) :
        w \in PadWords, k \in PadChoices,
        ts \in UNION {[1..n -> PlannerTokens] : n \in 1..MaxTokens}}
    \cup {QBitcoinEnglish, QBitcoinFrench, <<" "," ","B","i","t","c","o","i","n"," "," ">>, <<>>}

\* planner.analyze_question(planned_question)
analyze_question ==
    /\ ppc = "input"
    /\ analysis' = AnalyzeQuestion(planned_question)
    /\ ppc' = "done"
    /\ UNCHANGED <<planned_question, offPlannerVars>>

InitPlanner ==
    /\ SearchIdle /\ AgentIdle /\ MemoryIdle /\ FuseIdle /\ OrchIdle /\ ConcIdle
    /\ planned_question \in PlannerQuestions
    /\ analysis = NoAnalysis
    /\ ppc = "input"

NextPlanner == analyze_question

SpecPlanner == InitPlanner /\ [][NextPlanner]_vars

----------------------------------------------------------------------------
(* Properties of SearchPlanner.analyze_question *)

\* C21: the analysis has strategy "single" when there is exactly one sub-question,
\* "sequential" when there are several and the complexity is above 7, "parallel"
\* when there are several and the complexity is at most 7; its estimated number of
\* searches is the number of sub-questions when there are several and 1 otherwise.
C21_StrategySelection ==
    ppc = "done" =>
        LET n == Len(analysis.sub_questions)
            c == analysis.complexity
        IN  /\ n = 1 => analysis.search_strategy = "single"
            /\ (n > 1 /\ c > 7) => analysis.search_strategy = "sequential"
            /\ (n > 1 /\ c <= 7) => analysis.search_strategy = "parallel"
            /\ analysis.estimated_searches = IF n > 1 THEN n ELSE 1

\* a question of several sub-questions and complexity exactly 7 has been analysed, and
\* so have one above 7 and one of a single sub-question
C21_Witness ==
    /\ ppc = "done"
    /\ Len(analysis.sub_questions) > 1
    /\ analysis.complexity = 7
    /\ analysis.search_strategy = "parallel"
    /\ analysis.estimated_searches = Len(analysis.sub_questions)

\* C22 (as claimed): the sub-questions are at least one; they are exactly [question]
\* when the question has at most 20 words or splitting on the connectors does not
\* yield more than one part, and otherwise each is a non-empty trimmed segment.
C22_SubQuestionsWellFormed ==
    ppc = "done" =>
        LET q == planned_question
            sub == analysis.sub_questions
        IN  /\ Len(sub) >= 1
            /\ IF Len(SplitWords(q)) <= 20 \/ Len(ReSplit(q, Connectors)) <= 1
               THEN sub = <<q>>
               ELSE \A i \in 1..Len(sub) : sub[i] # <<>> /\ Strip(sub[i]) = sub[i]

\* some word of the question, in lower case, is "et", "ou" or "mais"
C23_HasConjunction(q) ==
    \E i \in 1..Len(SplitWords(q)) :
        \E k \in 1..Len(ConjunctionWords) : LowerText(SplitWords(q)[i]) = ConjunctionWords[k]

\* C23 (as claimed): complexity = min(10, 2*[more than 15 words] + 2*(the number of the
\* four patterns present) + 3*[more than one question mark, or a coordinating
\* conjunction present]), an integer between 0 and 10.
C23_ComplexityFormula ==
    ppc = "done" =>
        LET q == planned_question
            sum == (IF Len(SplitWords(q)) > 15 THEN 2 ELSE 0)
                   + 2 * Cardinality({k \in 1..4 : SearchIgnoreCase(PlannerPatterns[k], q)})
                   + (IF CountChar(q, "?") > 1 \/ C23_HasConjunction(q) THEN 3 ELSE 0)
        IN  /\ analysis.complexity \in 0..10
            /\ analysis.complexity = IF sum < 10 THEN sum ELSE 10

\* C24 (as claimed): "What is the Bitcoin price today?" is analysed as needing the web,
\* of complexity at least 2 and of strategy "single".
C24_EnglishScenario ==
    (ppc = "done" /\ planned_question = QBitcoinEnglish) =>
        /\ analysis.needs_web
        /\ analysis.complexity >= 2
        /\ analysis.search_strategy = "single"

\* C24 (amended): the indicators and patterns are French words. "What is the Bitcoin
\* price today?" is analysed as not needing the web, of complexity 0 and strategy
\* "single"; "Quel est le prix du Bitcoin aujourd'hui?" as needing the web, of
\* complexity at least 2 and strategy "single".
C24_FrenchScenario ==
    /\ (ppc = "done" /\ planned_question = QBitcoinEnglish) =>
           /\ ~analysis.needs_web
           /\ analysis.complexity = 0
           /\ analysis.search_strategy = "single"
    /\ (ppc = "done" /\ planned_question = QBitcoinFrench) =>
           /\ analysis.needs_web
           /\ analysis.complexity >= 2
           /\ analysis.search_strategy = "single"

C24_Witness ==
    /\ ppc = "done"
    /\ planned_question = QBitcoinFrench
    /\ analysis.needs_web

----------------------------------------------------------------------------
(* WebAwareAgent.answer_question followed round by round, on the           *)
(* ExtendedRAGPipeline the agent builds (agent_orchestrator.py:145-341)    *)

\* _extract_sources, extended_rag_pipeline.py lines 523-541
RECURSIVE ExtractSourcesFrom(_, _)
ExtractSourcesFrom(context, seen_sources) ==
    IF context = <<>> THEN <<>>
    ELSE LET chunk == Head(context)
             source == GetOr(chunk, "source", "unknown")
             source_type == GetOr(chunk, "source_type", "unknown")
         IN  IF source \notin seen_sources
             THEN <<[url |-> IF source_type = "web" THEN source ELSE "",
                     type |-> source_type,
                     title |-> GetOr(chunk, "title", source)]>>
                  \o ExtractSourcesFrom(Tail(context), seen_sources \cup {source})
             ELSE ExtractSourcesFrom(Tail(context), seen_sources)

ExtractSources(context) == ExtractSourcesFrom(context, {})

\* the sources of the responses, in the order the two loops of lines 334-335 visit them
RECURSIVE FlattenSources(_)
FlattenSources(responses) ==
    IF responses = <<>> THEN <<>>
    ELSE GetOr(Head(responses), "sources", <<>>) \o FlattenSources(Tail(responses))

\* lines 336-339
RECURSIVE MergeFrom(_, _)
MergeFrom(sources, seen_urls) ==
    IF sources = <<>> THEN <<>>
    ELSE LET source == Head(sources)
             url == GetOr(source, "url", "")
         IN  IF url # "" /\ url \notin seen_urls
             THEN <<source>> \o MergeFrom(Tail(sources), seen_urls \cup {url})
             ELSE MergeFrom(Tail(sources), seen_urls)

\* _merge_sources, agent_orchestrator.py lines 328-341
MergeSources(responses) == MergeFrom(FlattenSources(responses), {})

\* What the collaborators of one ask_question call do: "full": the local search and
\* the web search (if made) each return a chunk; "empty": they return nothing;
\* "caught": the local RAG or the web processing raises, which is caught where it is
\* called and gives no results (lines 260-262 and 286-288); "fault": the fusion or the
\* generation raises inside the try block of ask_question.
RoundOutcomes == {"full", "empty", "caught", "fault"}

\* _search_local, lines 231-262
LocalResults(o) == IF o \in {"empty", "caught"} THEN <<>> ELSE <<LocalChunk(500)>>

\* _search_web_enhanced, lines 264-288: the chunks of process_search_result
WebResults(o) ==
    IF o \in {"empty", "caught"} THEN <<>>
    ELSE <<WithField(ProcessedChunk(500, FuseNow), "title", "page")>>

\* The answer, as the words of its text: what _simulate_generation writes, or the
\* apology of line 226.
AnswerOf(o) == IF o = "fault" THEN <<"desole">> ELSE <<"reponse">>

\* the word w followed by "...)"
Closing(w) == IF w = "desole" THEN "desole...)" ELSE "reponse...)"

\* lines 268-270: f"{sub_q} (Contexte: {current_context[:200]}...)", as words; the
\* answers of the model stay below 200 characters.
EnrichedQuestion(sub_q, current_context) ==
    IF current_context = <<>> THEN sub_q
    ELSE sub_q \o <<"(Contexte:">>
         \o SubSeq(current_context, 1, Len(current_context) - 1)
         \o <<Closing(current_context[Len(current_context)])>>

\* line 282 after each round: the answers so far
RECURSIVE CurrentContext(_)
CurrentContext(rounds) ==
    IF rounds = <<>> THEN <<>>
    ELSE CurrentContext(SubSeq(rounds, 1, Len(rounds) - 1)) \o rounds[Len(rounds)].answer

\* The question analysed into these sub-questions; with one sub-question it is the
\* question itself.
SubQuestionLists == UNION {[1..n -> Questions] : n \in 1..MaxOrchSub}

\* answer_question lines 157-171: up to the choice of the strategy
StartAnswer(sub_questions, complexity, needs_web, max_depth) ==
    /\ opc = "idle"
    /\ total_questions' = total_questions + 1
    /\ IF ~available
       THEN /\ response' = UnavailableResponse
            /\ opc' = "done"
            /\ UNCHANGED <<o_plan, o_mem0>>
       ELSE /\ o_plan' = [search_strategy |-> SearchStrategy(Len(sub_questions), complexity),
                          sub_questions |-> sub_questions,
                          needs_web |-> needs_web,
                          max_depth |-> max_depth]
            /\ o_mem0' = interactions
            /\ opc' = "rounds"
            /\ UNCHANGED response
    /\ UNCHANGED <<available, web_searches_performed, sub_questions_generated,
                   average_response_time, averaged, pipeline_calls, o_rounds, o_result,
                   memVars, offOrchVars>>

\* The rounds the strategy makes
RoundsPlanned ==
    PlannedCalls(o_plan.search_strategy, Len(o_plan.sub_questions), o_plan.max_depth)

\* Mutation of RoundContext: the web results are fused whatever the gate said
RoundContext_AlwaysWeb(o, searched) == FuseResults(LocalResults(o), WebResults(o))

\* extended_rag_pipeline.py lines 182-200: web_results stays [] unless the search is
\* made, and combined_context is the fusion of the two lists
RoundContext(o, searched) ==
    FuseResults(LocalResults(o), IF searched THEN WebResults(o) ELSE <<>>)

\* One _execute_single_search call of the strategy (lines 220, 233, 272) and the
\* ask_question it makes (extended_rag_pipeline.py lines 176-229); o is what the
\* collaborators do. context, searched, fault, exception and at are history, not fields
\* of the response.
ExecuteRound(o) ==
    /\ opc = "rounds"
    /\ Len(o_rounds) < RoundsPlanned
    /\ LET i == Len(o_rounds) + 1
           sub_q == o_plan.sub_questions[i]
           asked == IF o_plan.search_strategy = "sequential"
                    THEN EnrichedQuestion(sub_q, CurrentContext(o_rounds))
                    ELSE sub_q
           use_web == o_plan.needs_web
           hit == IsRecentlySearched(interactions, clock, asked, DefaultLookupHours)
           searched == use_web /\ ~hit
           search_queries == IF searched THEN <<asked>> ELSE <<>>
           context == RoundContext(o, searched)
           fault == o = "fault"
       IN  /\ stats' = [total_queries |-> stats.total_queries + 1,
                        local_searches |-> stats.local_searches + 1,
                        web_searches |-> stats.web_searches + (IF searched THEN 1 ELSE 0),
                        cache_hits |-> stats.cache_hits + (IF use_web /\ hit THEN 1 ELSE 0)]
           /\ interactions' = IF fault THEN interactions
                              ELSE AddInteraction(interactions, clock, search_queries,
                                                  max_memory, ttl_hours)
           /\ mret' = [NoCall EXCEPT !.op = "ask", !.query = asked, !.use_web = use_web,
                                     !.hours = DefaultLookupHours, !.at = clock,
                                     !.value = searched]
           /\ search_log' = {[e EXCEPT !.since = @ + (IF fault THEN 0 ELSE 1)] :
                                 e \in search_log}
                            \cup (IF searched /\ ~fault
                                  THEN {[query |-> asked, time |-> clock, since |-> 0]}
                                  ELSE {})
           /\ o_rounds' = Append(o_rounds,
                                 [step |-> i,
                                  question |-> sub_q,
                                  enriched_question |-> asked,
                                  answer |-> AnswerOf(o),
                                  sources |-> IF fault THEN <<>> ELSE ExtractSources(context),
                                  context |-> IF fault THEN <<>> ELSE context,
                                  searched |-> searched,
                                  fault |-> fault,
                                  exception |-> o \in {"caught", "fault"},
                                  at |-> clock])
    /\ UNCHANGED <<max_memory, ttl_hours, clock, agentVars, opc, o_plan, o_mem0, o_result,
                   offOrchVars>>

\* The end of the strategy (lines 220, 247-253, 287-291) and of answer_question
\* (lines 184-205); processing_time is the time line 186 measures
FinishAnswer(processing_time) ==
    /\ opc = "rounds"
    /\ Len(o_rounds) = RoundsPlanned
    /\ LET strategy == o_plan.search_strategy
           nsub == Len(o_plan.sub_questions)
           outs == [i \in 1..Len(o_rounds) |->
                        IF o_rounds[i].fault THEN "degraded" ELSE "full"]
       IN  /\ response' = FinalResponse(StrategyKeys(strategy, outs), strategy)
           /\ o_result' = [sources |-> IF strategy = "single" THEN o_rounds[1].sources
                                       ELSE MergeSources(o_rounds),
                           trace |-> IF strategy = "sequential" THEN o_rounds ELSE <<>>]
           /\ pipeline_calls' = Len(o_rounds)
           /\ web_searches_performed' = web_searches_performed + EstimatedSearches(nsub)
           /\ sub_questions_generated' = sub_questions_generated + nsub
           /\ average_response_time' =
                  RunningAverage(average_response_time, total_questions, processing_time)
           /\ averaged' = [sum |-> averaged.sum + processing_time, n |-> averaged.n + 1]
    /\ opc' = "done"
    /\ UNCHANGED <<available, total_questions, o_plan, o_rounds, o_mem0, memVars,
                   offOrchVars>>

\* The agent and the pipeline it builds, before the question: WebAwareAgent.__init__
\* (lines 121-141) and ExtendedRAGPipeline.__init__ with ConversationMemory().
\* The rounds of one request are made within the hour: the clock of the memory does
\* not move.
InitOrch ==
    /\ SearchIdle /\ MemoryIdle /\ FuseIdle /\ PlannerIdle /\ ConcIdle
    /\ available \in BOOLEAN
    /\ total_questions = 0
    /\ web_searches_performed = 0
    /\ sub_questions_generated = 0
    /\ average_response_time = Zero /\ averaged = NoneAveraged
    /\ pipeline_calls = 0
    /\ response = NoAnswer
    /\ OrchIdle

NextOrch ==
    \/ \E sub_questions \in SubQuestionLists, complexity \in Complexities,
          needs_web \in BOOLEAN, max_depth \in (0 - 1)..MaxDepth :
           StartAnswer(sub_questions, complexity, needs_web, max_depth)
    \/ \E o \in RoundOutcomes : ExecuteRound(o)
    \/ \E processing_time \in ElapsedChoices : FinishAnswer(processing_time)

SpecOrch == InitOrch /\ [][NextOrch]_vars

----------------------------------------------------------------------------
(* Properties of the strategies of answer_question *)

\* C25: the sequential strategy executes the sub-questions in list order, exactly
\* min(len(sub_questions), max_depth) of them and none when max_depth <= 0; each step
\* is asked with the answers of all the steps before it, so only after they are
\* available; the trace returned lists exactly these steps, numbered 1..k.
C25_SequentialTrace ==
    (opc = "done" /\ o_plan.search_strategy = "sequential") =>
        LET subs == o_plan.sub_questions
            d == o_plan.max_depth
            k == IF d <= 0 THEN 0 ELSE IF Len(subs) < d THEN Len(subs) ELSE d
            trace == o_result.trace
        IN  /\ Len(trace) = k
            /\ pipeline_calls = k
            /\ \A i \in 1..Len(trace) :
                   /\ trace[i].step = i
                   /\ trace[i].question = subs[i]
                   /\ trace[i].enriched_question =
                          IF i = 1 THEN subs[1]
                          ELSE subs[i] \o <<"(Contexte:">>
                               \o [j \in 1..(i - 2) |-> trace[j].answer[1]]
                               \o <<Closing(trace[i - 1].answer[1])>>

\* a sequential request has returned after two steps, the second asked with the answer
\* of the first
C25_Witness ==
    /\ opc = "done"
    /\ o_plan.search_strategy = "sequential"
    /\ Len(o_result.trace) = 2
    /\ o_result.trace[2].enriched_question # o_result.trace[2].question
    /\ o_plan.max_depth >= 2

\* C26 (as claimed): in the parallel strategy each round is independent of the others:
\* whether the web search of a sub-question is executed is what it would be were the
\* round the only one, made on the memory the request started with.
C26_RoundsIndependent ==
    (opc = "done" /\ o_plan.search_strategy = "parallel") =>
        \A i \in 1..Len(o_rounds) :
            o_rounds[i].searched =
                (o_plan.needs_web
                 /\ ~IsRecentlySearched(o_mem0, o_rounds[i].at, o_rounds[i].question,
                                        DefaultLookupHours))

\* the sources of s whose URL no earlier source of s has
RECURSIVE C27_FirstByUrl(_, _)
C27_FirstByUrl(s, seen) ==
    IF s = <<>> THEN <<>>
    ELSE IF Head(s).url \in seen THEN C27_FirstByUrl(Tail(s), seen)
    ELSE <<Head(s)>> \o C27_FirstByUrl(Tail(s), seen \cup {Head(s).url})

\* C27 (as claimed): the sources a strategy of several sub-questions returns are the
\* sources of its sub-responses merged and de-duplicated by URL: one entry per distinct
\* URL, in first-occurrence order, and every source of a sub-response has its URL listed.
C27_MergedSources ==
    (opc = "done" /\ o_plan.search_strategy \in {"parallel", "sequential"}) =>
        LET all == FlattenSources(o_rounds)
            merged == o_result.sources
        IN  /\ merged = C27_FirstByUrl(all, {})
            /\ \A i \in 1..Len(all) : \E j \in 1..Len(merged) : merged[j].url = all[i].url

\* C28 (as claimed): an answer_question call that reaches a strategy appends exactly one
\* interaction to the memory, whatever the strategy.
C28_OneInteraction ==
    (opc = "done" /\ response.search_strategy \in {"single", "parallel", "sequential", "error"}) =>
        Len(interactions) = Len(o_mem0) + 1

\* C29 (as claimed): when an exception occurred during the request, inside a round
\* included, the response has search_strategy "error" and carries the error; a
\* response tagged single, parallel or sequential means that no exception occurred.
C29_ErrorTagged ==
    opc = "done" =>
        LET failed == \E i \in 1..Len(o_rounds) : o_rounds[i].exception
        IN  /\ failed => (response.search_strategy = "error" /\ "error" \in response.keys)
            /\ response.search_strategy \in {"single", "parallel", "sequential"} => ~failed

----------------------------------------------------------------------------
(* CircuitBreaker.call entered by several threads (web_search.py:30-54)    *)
(* The breaker takes no lock: a thread can be suspended between any two    *)
(* reads or writes of an attribute, so each is a step of its own.          *)

Threads == 1..MaxThreads

\* the search variables a thread inside the breaker does not touch
engineVars == <<failure_threshold, recovery_timeout, max_retries, pc, attempt, last_exception,
                ret, calls, last, raised, consec, n429, transient_only>>

\* line 31: the test of self.state
ThreadCheck(th) ==
    /\ t_pc[th] = "check"
    /\ t_pc' = [t_pc EXCEPT ![th] = IF state = "OPEN" THEN "timeout" ELSE "func"]
    /\ UNCHANGED <<failure_count, last_failure_time, state, now, t_reg, t_out,
                   engineVars, offConcVars>>

\* lines 32-35
ThreadTimeout(th) ==
    /\ t_pc[th] = "timeout"
    /\ IF now - last_failure_time[1] > recovery_timeout
       THEN /\ state' = "HALF_OPEN"
            /\ t_pc' = [t_pc EXCEPT ![th] = "func"]
            /\ UNCHANGED t_out
       ELSE /\ t_pc' = [t_pc EXCEPT ![th] = "done"]
            /\ t_out' = [t_out EXCEPT ![th] = "rejected"]
            /\ UNCHANGED state
    /\ UNCHANGED <<failure_count, last_failure_time, now, t_reg, engineVars, offConcVars>>

\* lines 37-43: func returns (ok = TRUE) or raises
ThreadFunc(th, ok) ==
    /\ t_pc[th] = "func"
    /\ t_pc' = [t_pc EXCEPT ![th] = IF ok THEN "reset" ELSE "load"]
    /\ t_out' = [t_out EXCEPT ![th] = IF ok THEN "ok" ELSE "failed"]
    /\ UNCHANGED <<failure_count, last_failure_time, state, now, t_reg,
                   engineVars, offConcVars>>

\* line 46
ThreadReset(th) ==
    /\ t_pc[th] = "reset"
    /\ failure_count' = 0
    /\ t_pc' = [t_pc EXCEPT ![th] = "close"]
    /\ UNCHANGED <<last_failure_time, state, now, t_reg, t_out, engineVars, offConcVars>>

\* line 47
ThreadClose(th) ==
    /\ t_pc[th] = "close"
    /\ state' = "CLOSED"
    /\ t_pc' = [t_pc EXCEPT ![th] = "done"]
    /\ UNCHANGED <<failure_count, last_failure_time, now, t_reg, t_out,
                   engineVars, offConcVars>>

\* line 50, self.failure_count += 1: the read
ThreadLoad(th) ==
    /\ t_pc[th] = "load"
    /\ t_reg' = [t_reg EXCEPT ![th] = failure_count]
    /\ t_pc' = [t_pc EXCEPT ![th] = "store"]
    /\ UNCHANGED <<failure_count, last_failure_time, state, now, t_out,
                   engineVars, offConcVars>>

\* line 50, self.failure_count += 1: the write
ThreadStore(th) ==
    /\ t_pc[th] = "store"
    /\ failure_count' = t_reg[th] + 1
    /\ t_pc' = [t_pc EXCEPT ![th] = "stamp"]
    /\ UNCHANGED <<last_failure_time, state, now, t_reg, t_out, engineVars, offConcVars>>

\* line 51
ThreadStamp(th) ==
    /\ t_pc[th] = "stamp"
    /\ last_failure_time' = <<now>>
    /\ t_pc' = [t_pc EXCEPT ![th] = "test"]
    /\ UNCHANGED <<failure_count, state, now, t_reg, t_out, engineVars, offConcVars>>

\* lines 53-54
ThreadTest(th) ==
    /\ t_pc[th] = "test"
    /\ state' = IF failure_count >= failure_threshold THEN "OPEN" ELSE state
    /\ t_pc' = [t_pc EXCEPT ![th] = "done"]
    /\ UNCHANGED <<failure_count, last_failure_time, now, t_reg, t_out,
                   engineVars, offConcVars>>

\* time.time() moves on by a second, until the recovery timeout can have passed
ConcTick ==
    /\ now <= recovery_timeout
    /\ now' = now + 1
    /\ UNCHANGED <<failure_count, last_failure_time, state, concVars,
                   engineVars, offConcVars>>

\* A breaker (lines 23-28) that has executed consec calls, all of which failed, the
\* last one at time 0 (lines 49-54 after each), and MaxThreads threads about to enter
\* call(); consec = 0 is the new breaker.
InitConc ==
    /\ failure_threshold \in 1..MaxThreshold
    /\ recovery_timeout \in 1..MaxRecoveryTimeout
    /\ max_retries = 3
    /\ consec \in 0..failure_threshold
    /\ failure_count = consec
    /\ last_failure_time = IF consec = 0 THEN None ELSE <<0>>
    /\ state = IF consec >= failure_threshold THEN "OPEN" ELSE "CLOSED"
    /\ pc = "idle" /\ attempt = 0 /\ last_exception = "None"
    /\ ret = NoReturn
    /\ now = 0 /\ calls = 0 /\ last = NoAttempt
    /\ raised = "none" /\ n429 = 0 /\ transient_only = TRUE
    /\ AgentIdle /\ MemoryIdle /\ FuseIdle /\ PlannerIdle /\ OrchIdle
    /\ t_pc = [th \in Threads |-> "check"]
    /\ t_reg = [th \in Threads |-> 0]
    /\ t_out = [th \in Threads |-> "none"]

NextConc ==
    \/ \E th \in Threads :
           \/ ThreadCheck(th)
           \/ ThreadTimeout(th)
           \/ \E ok \in BOOLEAN : ThreadFunc(th, ok)
           \/ ThreadReset(th)
           \/ ThreadClose(th)
           \/ ThreadLoad(th)
           \/ ThreadStore(th)
           \/ ThreadStamp(th)
           \/ ThreadTest(th)
    \/ ConcTick

SpecConc == InitConc /\ [][NextConc]_vars

\* C30 (as claimed): the bookkeeping is atomic: once n concurrent calls have failed,
\* none having succeeded, failure_count has grown by exactly n (from the consec failures
\* counted before them), and the breaker is open whenever failure_count >=
\* failure_threshold.
C30_AtomicBookkeeping ==
    ((\A th \in Threads : t_pc[th] = "done") /\ (\A th \in Threads : t_out[th] # "ok")) =>
        /\ failure_count = consec + Cardinality({th \in Threads : t_out[th] = "failed"})
        /\ failure_count >= failure_threshold => state = "OPEN"

\* the threads that line 31-35 let through and whose call has not settled the breaker yet
C31_InsideCall == {th \in Threads : t_pc[th] \notin {"check", "timeout", "done"}}

\* C31 (as claimed): of the calls that arrive at a breaker that is OPEN with
\* recovery_timeout elapsed, one is the HALF_OPEN trial: while the breaker is HALF_OPEN
\* at most one call is past the gate, at the provider or settling the state.
C31_SingleTrial == state = "HALF_OPEN" => Cardinality(C31_InsideCall) <= 1

----------------------------------------------------------------------------
(* Properties of the statistics of the agent *)

\* C32 (as claimed): after any sequence of answer_question calls, degraded ones
\* included, average_response_time is the arithmetic mean of the processing times of
\* the requests that updated it.
C32_RunningMean ==
    averaged.n > 0 =>
        average_response_time.num * averaged.n = averaged.sum * average_response_time.den

----------------------------------------------------------------------------
(* Further properties of the circuit breaker          (checked under SpecSearch) *)

\* C33: a call through the breaker that completes successfully hands on the result of
\* the wrapped function (search() returns its validation) and leaves the breaker CLOSED
\* with failure_count = 0, whether it was admitted CLOSED or HALF_OPEN; failures
\* separated by a success do not add up: failure_count is the number of executed calls
\* that failed since the last success.
C33_SuccessResets ==
    /\ (pc = "idle" /\ last.kind = "ok" /\ raised = "none") =>
           /\ state = "CLOSED" /\ failure_count = 0
           /\ ret = [kind |-> "list", items |-> ValidateResults(ConvertResults(last.raw))]
    /\ failure_count = consec

\* a success of the HALF_OPEN trial: with failure_threshold = 1 the earlier failure had
\* opened the breaker
C33_Witness ==
    /\ pc = "idle" /\ last.kind = "ok" /\ raised = "none" /\ ret.items # <<>>
    /\ failure_threshold = 1 /\ last_failure_time # None
    /\ state = "CLOSED" /\ failure_count = 0

\* C37: between two calls of a breaker used by one caller at a time, with
\* failure_threshold >= 1: CLOSED implies failure_count < failure_threshold; OPEN
\* implies failure_count >= failure_threshold and last_failure_time is set; and the
\* state is not HALF_OPEN, which lasts only while the trial call is in progress.
C37_BetweenCalls ==
    pc = "idle" =>
        /\ state = "CLOSED" => failure_count < failure_threshold
        /\ state = "OPEN" => failure_count >= failure_threshold /\ last_failure_time # None
        /\ state # "HALF_OPEN"

\* after a HALF_OPEN trial that failed
C37_Witness ==
    /\ pc = "idle" /\ state = "OPEN" /\ failure_count > failure_threshold
    /\ raised = "search_failed" /\ last_failure_time = <<now>>

\* C38: one search() changes failure_count at most once: the provider invocations of
\* the retry loop that fail and are retried leave it alone, a search that ends in
\* failure adds one whatever the number of its failed attempts, and a search that
\* succeeds, after failed attempts or not, sets it to 0; so the breaker is OPEN only
\* after failure_threshold searches have failed, each of at most max_retries provider
\* invocations.
C38_OneFailurePerSearch ==
    [][ /\ (pc' = "loop" => failure_count' = failure_count)
        /\ (pc = "loop" /\ pc' = "idle") =>
               /\ calls' <= max_retries
               /\ IF raised' = "none" THEN failure_count' = 0
                  ELSE failure_count' = failure_count + 1
        /\ state' = "OPEN" => consec' >= failure_threshold ]_vars

\* a search whose max_retries >= 2 attempts all failed has counted one failure
C38_Witness ==
    /\ pc = "idle" /\ raised = "search_failed" /\ calls = max_retries /\ calls >= 2
    /\ failure_count = 1 /\ consec = 1

----------------------------------------------------------------------------
(* Further properties of the memory                   (checked under SpecMemory) *)

\* The procedure as specified, at time t: purge what is older than ttl, append the
\* new interaction, drop the oldest if the size exceeds maxm.
C34_Specified(ints, t, search_queries, maxm, ttl) ==
    LET purged == SelectSeq(ints, LAMBDA i : i.timestamp > t - ttl)
        appended == Append(purged, [timestamp |-> t, search_queries |-> search_queries])
    IN  IF Len(appended) > maxm THEN Tail(appended) ELSE appended

\* a step of add_interaction (clock and mret say so; interactions are oldest first)
C34_Recorded ==
    /\ mret'.op = "add" /\ clock' = clock
    /\ \A i \in 1..(Len(interactions) - 1) :
           interactions[i].timestamp <= interactions[i + 1].timestamp

\* C34 (as claimed): whatever the memory held, add_interaction leaves what the
\* specified procedure leaves: the new interaction with the live ones before it, less
\* the oldest when they are more than max_memory.
C34_AsSpecified ==
    [][ C34_Recorded =>
            \E search_queries \in SearchQueryLists :
                interactions' = C34_Specified(interactions, clock, search_queries,
                                              max_memory, ttl_hours) ]_vars

----------------------------------------------------------------------------
(* WebAwareAgent._execute_sequential_search, character by character        *)
(* (agent_orchestrator.py:255-291): the questions and the answers are       *)
(* sequences of characters, as in the planner.                              *)

SummaryChars == 200    \* line 270: current_context[:200]

\* line 282 after each step: current_context += f" {answer}"
RECURSIVE ContextText(_)
ContextText(rounds) ==
    IF rounds = <<>> THEN <<>>
    ELSE ContextText(SubSeq(rounds, 1, Len(rounds) - 1)) \o <<" ">> \o rounds[Len(rounds)].answer

\* Mutation of EnrichedText: the context is not cut
EnrichedText_Whole(sub_q, current_context) ==
    IF current_context # <<>>
    THEN sub_q \o <<" ","(","C","o","n","t","e","x","t","e",":"," ">> \o current_context \o <<".",
        ".",".",")">>
    ELSE sub_q

\* lines 268-270
EnrichedText(sub_q, current_context) ==
    IF current_context # <<>>
    THEN sub_q \o <<" ","(","C","o","n","t","e","x","t","e",":",
        " ">> \o FirstN(current_context, SummaryChars) \o <<".",".",".",")">>
    ELSE sub_q

\* The sub-questions of the request and, per step, the answers the pipeline can give:
\* the step's letter, not at all, a few times, or up to and beyond what the summary holds.
StepQuestions == <<<<"q","1">>, <<"q","2">>, <<"q","3">>>>
StepLetters == <<"a", "b", "c">>
AnswerLengths == {0, 3, SummaryChars - 2, SummaryChars + 50}

\* lines 255-261: the strategy is entered with max_depth
StartSequential(max_depth) ==
    /\ opc = "idle"
    /\ o_plan' = [search_strategy |-> "sequential", sub_questions |-> StepQuestions,
                  needs_web |-> FALSE, max_depth |-> max_depth]
    /\ opc' = "rounds"
    /\ UNCHANGED <<o_rounds, o_mem0, o_result, agentVars, memVars, offOrchVars>>

\* lines 263-282: one iteration of the loop; answer is response.get("answer", "")
SequentialStep(answer) ==
    /\ opc = "rounds"
    /\ Len(o_rounds) < RoundsPlanned
    /\ LET i == Len(o_rounds) + 1
           sub_q == o_plan.sub_questions[i]
       IN  o_rounds' = Append(o_rounds,
                              [step |-> i,
                               question |-> sub_q,
                               enriched_question |-> EnrichedText(sub_q, ContextText(o_rounds)),
                               answer |-> answer])
    /\ UNCHANGED <<opc, o_plan, o_mem0, o_result, agentVars, memVars, offOrchVars>>

\* lines 264-265 or the end of the list, and lines 285-291
ReturnSequential ==
    /\ opc = "rounds"
    /\ Len(o_rounds) = RoundsPlanned
    /\ o_result' = [sources |-> <<>>, trace |-> o_rounds]
    /\ opc' = "done"
    /\ UNCHANGED <<o_plan, o_rounds, o_mem0, agentVars, memVars, offOrchVars>>

InitSequential ==
    /\ SearchIdle /\ AgentIdle /\ MemoryIdle /\ FuseIdle /\ ExtIdle

NextSequential ==
    \/ \E max_depth \in 0..MaxDepth : StartSequential(max_depth)
    \/ \E n \in AnswerLengths :
           SequentialStep([k \in 1..n |-> StepLetters[Len(o_rounds) + 1]])
    \/ ReturnSequential

SpecSequential == InitSequential /\ [][NextSequential]_vars

\* C35: in the sequential strategy the question of the first step is its sub-question
\* as it is, and the question of each later step is its sub-question followed by
\* " (Contexte: ", the first 200 characters of the answers of all the earlier steps
\* (each preceded by a space, in step order) and "...)"; no later answer is in it.
C35_EnrichedBySummary ==
    \A i \in 1..Len(o_rounds) :
        LET sub_q == StepQuestions[i]
            enriched == o_rounds[i].enriched_question
            earlier == ContextText(SubSeq(o_rounds, 1, i - 1))
            summary == IF Len(earlier) <= SummaryChars THEN earlier
                       ELSE SubSeq(earlier, 1, SummaryChars)
        IN  /\ o_rounds[i].question = sub_q
            /\ IF i = 1 THEN enriched = sub_q
               ELSE /\ Len(enriched) = Len(sub_q) + 12 + Len(summary) + 4
                    /\ SubSeq(enriched, 1, Len(sub_q)) = sub_q
                    /\ SubSeq(enriched, Len(sub_q) + 13, Len(sub_q) + 12 + Len(summary)) = summary
                    /\ \A k \in 1..Len(enriched) :
                           \A j \in i..Len(StepLetters) : enriched[k] # StepLetters[j]

\* the third step was asked with a summary that the answers of the first two steps
\* both reach and that the 200-character cut shortened
C35_Witness ==
    /\ opc = "done" /\ Len(o_rounds) = 3
    /\ Len(ContextText(SubSeq(o_rounds, 1, 2))) > SummaryChars
    /\ \E k \in 1..Len(o_rounds[3].enriched_question) : o_rounds[3].enriched_question[k] = "a"
    /\ \E k \in 1..Len(o_rounds[3].enriched_question) : o_rounds[3].enriched_question[k] = "b"

----------------------------------------------------------------------------
(* Further properties of the statistics              (checked under SpecOrch) *)

\* C36 (as claimed): when a request has returned, stats["web_searches_performed"]
\* is the number of web searches made: nothing is counted for a question that does
\* not need the web, for a search the recent-search gate suppressed, or for a
\* sub-question max_depth left out.
C36_CountsWebSearches ==
    opc = "done" =>
        web_searches_performed = Cardinality({i \in 1..Len(o_rounds) : o_rounds[i].searched})

----------------------------------------------------------------------------
(* Further properties of the web search gate          (checked under SpecOrch) *)

\* the rounds of a request that needs the web whose search the gate suppressed
C39_Suppressed == {i \in 1..Len(o_rounds) : o_plan.needs_web /\ ~o_rounds[i].searched}

====
